---- MODULE Spec2Model ----
(***************************************************************************)
(* Copy-trading bot: trade executors (PumpPortal local API, PumpPortal     *)
(* lightning API, Jupiter swap) and the unified price service.             *)
(*                                                                         *)
(* Units.  SOL amounts are integers in lamports, token amounts are whole   *)
(* tokens.  The code divides lamports by 1e9 before comparing with zero;   *)
(* the division keeps order and sign, so the comparisons are made on       *)
(* lamports.  Times are integers in milliseconds (Date.now()).             *)
(***************************************************************************)
EXTENDS Integers, Sequences, FiniteSets, TLC

\* ------------------------------------------------------------------ bounds
\* largest balance (tokens or lamports) in a fetched transaction record
MaxBal == 1
\* largest numeric token quantity a caller passes to a sell
MaxSell == 2
\* largest buy size, in multiples of LamportsPerToken
MaxBuy == 2

\* busy time of one run of the price service (ms): calls and short waits fit
\* in it, one long idle period comes on top
MaxNow == 12500
\* largest reserve / quoted amount the sources answer with
MaxOut == 1

\* largest price of the exit evaluation, in price units
MaxPrice == 6

\* graduation writes one position is followed for
MaxWrites == 2
MaxUpvotes == 4

\* ------------------------------------------------------- program constants
\* for (let i = 0; i < 30; i++)
MaxPollAttempts == 30
\* avgPrice = 0.000001 SOL per token, i.e. 1000 lamports per token
LamportsPerToken == 1000
\* JupiterPriceService: this.cacheMaxAge = 5000
cacheMaxAge == 5000

\* this.cacheMs = 5000
cacheMs == 5000
\* this.maxFailedAttempts = 3
maxFailedAttempts == 3
\* this.failedAttemptsResetMs = 60000
failedAttemptsResetMs == 60000
\* CopyStrategy: parseInt(process.env.MIN_WALLETS_TO_SELL || '1')
minWalletsToSell == 1
\* parseFloat(process.env.COPY_PROFIT_TARGET || '25')
takeProfitPercent == 25
\* parseFloat(process.env.TRAILING_STOP || '12')
trailingStopPercent == 12
\* parseFloat(process.env.COPY_STOP_LOSS || '15')
stopLoss == 15
\* parseInt(process.env.COPY_MAX_HOLD || '240')
maxHoldSeconds == 240
\* parseInt(process.env.MIN_WALLETS_TO_BUY || '1')
minWalletsToBuy == 1
\* parseInt(process.env.REBUY_WINDOW || '300'), seconds
rebuyWindow == 300
\* parseInt(process.env.MAX_POSITIONS || '2', 10)
maxPositions == 2
\* for (let i = 1; i <= 7; i++): the previous days isRebuySignal searches
HistoryDays == 7
\* calculatePnL: sellFeeTotal of 'pumpportal', 'jupiter' and any other executor,
\* in 1/10000
SellFeePumpPortal == 175
SellFeeJupiter == 30
SellFeeGeneric == 100
\* networkFee = 0.000005 SOL, in 1e-7 SOL
DefaultNetworkFee == 50
\* Math.abs(slippage) > 0.0001, in 1/10000
SlippageFloor == 1
\* LAMPORTS_PER_SOL = 1e9 and PUMP_TOKEN_DECIMALS = 6, as powers of ten
LamportsPerSolExp == 9
PumpTokenDecimals == 6
\* the clock's grain and the time one network round of a getPrice call takes (ms)
TickMs == 2500

Mints == {"mintA", "mintB"}
\* the instruments the price service is asked about
PriceMints == {"mintA"}
TokenAccounts == {"wallet", "curve"}

VARIABLES
    dryRun,          \* this.dryRun of the executors (fixed at construction)
    pc,              \* position of the executor call in flight
    call,            \* arguments of the call: [api, action, mint, amount]
    i,               \* loop counter of waitForConfirmation (0 outside of it)
    confirmed,       \* value returned by waitForConfirmation: "pending", "true", "false"
    txResp,          \* response of connection.getTransaction, NoTx before the fetch
    result,          \* the ExecutionResult returned, NoResult while in flight
    net,             \* network calls issued by the call in flight, per kind
    statusErrSeen,   \* a signature status carrying err was observed in this call
    queriedAfterErr, \* getSignatureStatus was called again after such a status
    failedStep,      \* the step whose failure ended the call, "none" otherwise
    now,             \* Date.now()
    priceCache,      \* PriceService.priceCache: mint -> quote, NoQuote when absent
    failedAttempts,  \* PriceService.failedAttempts: mint -> [count, lastAttempt],
                     \* count 0 when absent
    jupCache,        \* JupiterPriceService.priceCache: mint -> [price, timestamp],
                     \* price 0 when absent
    last,            \* the last getPrice call: arguments, quote returned, sources
                     \* contacted, and what the service held when it started
    cacheDone,       \* history: per mint, when the call that wrote the cache returned
    cfg,             \* CopyStrategy: the fields its constructor reads from the environment
    exitIn,          \* arguments and reads of the last shouldExit call
    exitOut,         \* what that call returned
    redis,           \* the position store: open set, the signal mint's position, its cooldown key
    entryPc,         \* where the shouldCopy call in flight stands
    copySignal,      \* its argument
    entryIn,         \* history: what isRebuySignal read
    seen,            \* history: the store's answer at each of the three last checks
    entryOut,        \* what shouldCopy returned
    positions,       \* the store's position:<mint> hashes
    service,         \* GraduationHandler.priceService: the methods it exposes
    gpc,             \* where monitorOpenPositions stands
    todo,            \* the mints of this pass not visited yet
    position,        \* the hash the loop read for the mint it is at
    gradDexPrice,    \* handleGraduatedPosition: its local dexPrice (0: null)
    writes,          \* history: graduation writes made to each position
    graduation,      \* history: the last hasGraduated call, what it was given and answered
    engine,          \* Strategy Engine: per mint, the position flag and the tasks running
    pnlIn,           \* the trade of the last calculatePnL call
    pnlOut,          \* what that call returned
    curveIn,         \* the bonding-curve account the last read was given
    curveOut,        \* what the two readers and getPrice made of it
    copyTasks,       \* per mint, where its shouldCopy call stands and what it answered
    openSet,         \* the store's open_positions set, as the concurrent evaluations see it
    openedTwice,     \* history: a position was recorded for a mint that had one
    misses           \* history: per mint, the stamps of the all-sources-miss
                     \* resolutions since the last resolution that found a price

execVars == <<dryRun, pc, call, i, confirmed, txResp, result, net,
              statusErrSeen, queriedAfterErr, failedStep>>

priceVars == <<now, priceCache, failedAttempts, jupCache, last, cacheDone, misses>>

exitVars == <<cfg, exitIn, exitOut>>

entryVars == <<redis, entryPc, copySignal, entryIn, seen, entryOut>>

gradVars == <<positions, service, gpc, todo, position, gradDexPrice, writes, graduation>>

engineVars == <<engine>>
pnlVars == <<pnlIn, pnlOut>>
curveVars == <<curveIn, curveOut>>
copyVars == <<copyTasks, openSet, openedTwice>>

nonExecVars == <<priceVars, exitVars, entryVars, gradVars, engineVars, pnlVars, curveVars, copyVars>>
nonPriceVars == <<execVars, exitVars, entryVars, gradVars, engineVars, pnlVars, curveVars, copyVars>>
nonStrategyVars == <<execVars, priceVars, gradVars, engineVars, pnlVars, curveVars, copyVars>>
nonGradVars == <<execVars, priceVars, exitVars, entryPc, copySignal, entryIn, seen, entryOut,
                 engineVars, pnlVars, curveVars, copyVars>>
nonEngineVars == <<execVars, priceVars, exitVars, entryVars, gradVars, pnlVars, curveVars, copyVars>>
nonPnlVars == <<execVars, priceVars, exitVars, entryVars, gradVars, engineVars, curveVars, copyVars>>
nonCurveVars == <<execVars, priceVars, exitVars, entryVars, gradVars, engineVars, pnlVars,
                  copyVars>>
nonCopyVars == <<execVars, priceVars, exitVars, entryVars, gradVars, engineVars, pnlVars,
                 curveVars>>

vars == <<execVars, priceVars, exitVars, entryVars, gradVars, engineVars, pnlVars, curveVars, copyVars>>

\* ------------------------------------------------------------------ values
\* a sell amount as the caller passes it: a number, or a string ("100%")
Num(n) == [str |-> FALSE, pct |-> FALSE, n |-> n]
Pct(n) == [str |-> TRUE, pct |-> TRUE, n |-> n]

BuyAmounts == {Num(k * LamportsPerToken) : k \in 1..MaxBuy}
SellAmounts == {Num(k) : k \in 1..MaxSell} \cup {Pct(100), Pct(50)}

NoCall == [api |-> "none", action |-> "none", mint |-> "none", amount |-> Num(0)]
NoTx == [kind |-> "unfetched"]
NoResult == [success |-> FALSE, simulated |-> FALSE, action |-> "none",
             mint |-> "none", error |-> "in flight", tokensReceived |-> 0,
             tokensSold |-> Num(0), solReceived |-> 0, solSpent |-> 0]
\* sent: the amount field of the last payload posted by the call
NoNet == [request |-> 0, send |-> 0, fetch |-> 0, sent |-> Num(0)]

\* token balance snapshots: sequences of [acct, amt] in account-index order
\* (the signer's token account before the other one), an account at most once
BalEntries == [acct : TokenAccounts, amt : 0..MaxBal]
BalSeqs ==
    {<<>>} \cup {<<e>> : e \in BalEntries}
           \cup {s \in BalEntries \X BalEntries :
                    s[1].acct = "wallet" /\ s[2].acct = "curve"}

\* what connection.getTransaction can answer
\* ("throw": the RPC call fails; "null": no record; "nometa": a record without
\* meta; "err": meta.err is set; "ok": meta.err is null).  walletFound: the
\* signer's key is in staticAccountKeys or accountKeys.
TxRecords ==
    {[kind |-> "throw"], [kind |-> "null"], [kind |-> "nometa"]}
    \cup [kind : {"ok", "err"}, pre : BalSeqs, post : BalSeqs,
          walletFound : {TRUE}, preLamports : 0..MaxBal, postLamports : 0..MaxBal]
    \cup [kind : {"ok", "err"}, pre : BalSeqs, post : BalSeqs,
          walletFound : {FALSE}, preLamports : {0}, postLamports : {0}]

\* what connection.getSignatureStatus can answer
StatusResponses ==
    {[kind |-> "throw"], [kind |-> "null"]}
    \cup [kind : {"value"}, err : BOOLEAN,
          status : {"processed", "confirmed", "finalized"}]

Abs(x) == IF x < 0 THEN -x ELSE x

\* ------------------------------------------------- PumpPortal local API
\* preTokenBalances.find(p => p.accountIndex === postBal.accountIndex), `|| 0`
PreAmount(pre, acct) ==
    IF \E k \in 1..Len(pre) : pre[k].acct = acct
    THEN LET k == CHOOSE j \in 1..Len(pre) :
                      /\ pre[j].acct = acct
                      /\ \A h \in 1..(j - 1) : pre[h].acct # acct
         IN pre[k].amt
    ELSE 0

\* tokensDelta += postAmount - preAmount, over every entry of postTokenBalances
RECURSIVE TokensDelta(_, _)
TokensDelta(pre, post) ==
    IF post = <<>> THEN 0
    ELSE (Head(post).amt - PreAmount(pre, Head(post).acct))
         + TokensDelta(pre, Tail(post))

\* solDelta of the signer: postBalances[walletIndex] - preBalances[walletIndex]
SolDelta(tx) == IF tx.walletFound THEN tx.postLamports - tx.preLamports ELSE 0

Failed(msg) == [failed |-> TRUE, error |-> msg, tokensReceived |-> 0,
                tokensSold |-> 0, solReceived |-> 0]

\* PumpPortalExecutor.parseTx (local API)
ParseTx(tx) ==
    IF tx.kind = "nometa" THEN Failed("No meta in transaction")
    ELSE IF tx.kind = "err" THEN Failed("meta.err")
    ELSE LET tokensDelta == TokensDelta(tx.pre, tx.post)
             solDelta == SolDelta(tx)
             tokensReceived == Abs(tokensDelta)
             tokensSold == IF tokensDelta < 0 THEN Abs(tokensDelta) ELSE 0
             solReceived == IF solDelta > 0 THEN solDelta ELSE 0
         IN IF tokensReceived = 0 /\ tokensSold = 0 /\ solReceived < 1
            THEN Failed("No token/SOL movement detected for wallet (likely failed tx)")
            ELSE [failed |-> FALSE, error |-> "", tokensReceived |-> tokensReceived,
                  tokensSold |-> tokensSold, solReceived |-> solReceived]

\* PumpPortalExecutor.getTxDetails (local API)
GetTxDetails(tx) ==
    IF tx.kind = "throw" THEN Failed("getTransaction error")
    ELSE IF tx.kind = "null" THEN Failed("Transaction not found")
    ELSE IF tx.kind = "err" THEN Failed("meta.err")
    ELSE ParseTx(tx)

\* ---------------------------------------------- PumpPortal lightning API
FirstAmt(bal) == IF bal = <<>> THEN 0 ELSE bal[1].amt

\* PumpPortalExecutor.parseTx (lightning API): element [0] of each snapshot,
\* meta.err is not looked at, solReceived is the signed delta
ParseTxLightning(tx) ==
    IF tx.kind = "null" THEN [isNull |-> FALSE, tokensReceived |-> 0, solReceived |-> 0]
    ELSE IF tx.kind = "nometa"
    THEN [isNull |-> FALSE, tokensReceived |-> 0, solReceived |-> 0]
    ELSE [isNull |-> FALSE,
          tokensReceived |-> FirstAmt(tx.post) - FirstAmt(tx.pre),
          solReceived |-> SolDelta(tx)]

\* PumpPortalExecutor.getTxDetails (lightning API): null when the fetch throws
GetTxDetailsLightning(tx) ==
    IF tx.kind = "throw" THEN [isNull |-> TRUE, tokensReceived |-> 0, solReceived |-> 0]
    ELSE ParseTxLightning(tx)

\* ------------------------------------------------------- Jupiter executor
\* JupiterExecutor.parseSwapTx: the signer's signed SOL delta, 0 when the
\* record or its meta is missing or the fetch throws; meta.err is not looked at
ParseSwapTx(tx) ==
    IF tx.kind \in {"throw", "null", "nometa"} THEN 0 ELSE SolDelta(tx)

\* ------------------------------------------------------ ExecutionResults
\* a catch block that loses the instrument
CaughtNoMint(action, mint, msg) ==
    [success |-> FALSE, simulated |-> FALSE, action |-> action, mint |-> "none",
     error |-> msg, tokensReceived |-> 0, tokensSold |-> Num(0),
     solReceived |-> 0, solSpent |-> 0]

\* the catch block of buyToken / sellToken / swapToken
Caught(action, mint, msg) ==
    [success |-> FALSE, simulated |-> FALSE, action |-> action, mint |-> mint,
     error |-> msg, tokensReceived |-> 0, tokensSold |-> Num(0),
     solReceived |-> 0, solSpent |-> 0]

Success(action, mint, simulated, solSpent, tokensReceived, tokensSold, solReceived) ==
    [success |-> TRUE, simulated |-> simulated, action |-> action, mint |-> mint,
     error |-> "", tokensReceived |-> tokensReceived, tokensSold |-> tokensSold,
     solReceived |-> solReceived, solSpent |-> solSpent]

\* simulateBuy (both PumpPortal executors): tokens = solAmount / avgPrice
SimulateBuy(mint, solAmount) ==
    Success("buy", mint, TRUE, solAmount.n, solAmount.n \div LamportsPerToken, Num(0), 0)

\* simulateSell (local API): "100%" gives a symbolic result with solReceived 0,
\* a number gives sol = amountTokens * avgPrice
SimulateSellLocal(mint, amountTokens) ==
    IF amountTokens.str /\ amountTokens.pct
    THEN Success("sell", mint, TRUE, 0, 0, amountTokens, 0)
    ELSE Success("sell", mint, TRUE, 0, 0, amountTokens, amountTokens.n * LamportsPerToken)

\* simulateSell (lightning API): sol = amountTokens * avgPrice
SimulateSellLightning(mint, amountTokens) ==
    Success("sell", mint, TRUE, 0, 0, amountTokens, amountTokens.n * LamportsPerToken)

\* swapToken in dry run: expectedSOL 0, solReceived 0
SimulateSwap(mint, uiTokenAmount) ==
    Success("sell", mint, TRUE, 0, 0, uiTokenAmount, 0)

Simulate(c) ==
    IF c.api = "jupiter" THEN SimulateSwap(c.mint, c.amount)
    ELSE IF c.action = "buy" THEN SimulateBuy(c.mint, c.amount)
    ELSE IF c.api = "local" THEN SimulateSellLocal(c.mint, c.amount)
    ELSE SimulateSellLightning(c.mint, c.amount)

\* a buy check that forgets the zero-movement test
BuyVerifiedNoZeroCheck(txDetails) == ~txDetails.failed

\* buyToken (local API) after getTxDetails: throw unless the record is there,
\* has no error and tokensReceived > 0
BuyVerified(txDetails) ==
    /\ ~txDetails.failed
    /\ txDetails.tokensReceived > 0

VerifyBuyLocal(c, tx) ==
    LET txDetails == GetTxDetails(tx) IN
    IF BuyVerified(txDetails)
    THEN Success("buy", c.mint, FALSE, c.amount.n, txDetails.tokensReceived, Num(0), 0)
    ELSE Caught("buy", c.mint,
                IF txDetails.failed THEN "On-chain BUY failed"
                ELSE "On-chain BUY has zero tokensReceived")

\* a sell check that forgets the solReceived test
SellVerifiedNoSolCheck(txDetails) ==
    /\ ~txDetails.failed
    /\ txDetails.tokensSold > 0

\* sellToken (local API) after getTxDetails: throw unless the record is there,
\* has no error, tokensSold > 0 and solReceived > 0
SellVerified(txDetails) ==
    /\ ~txDetails.failed
    /\ txDetails.tokensSold > 0
    /\ txDetails.solReceived > 0

VerifySellLocal(c, tx) ==
    LET txDetails == GetTxDetails(tx) IN
    IF SellVerified(txDetails)
    THEN Success("sell", c.mint, FALSE, 0, 0, Num(txDetails.tokensSold),
                 txDetails.solReceived)
    ELSE Caught("sell", c.mint,
                IF txDetails.failed THEN "On-chain SELL failed"
                ELSE IF txDetails.tokensSold <= 0
                     THEN "On-chain SELL has zero tokensSold"
                     ELSE "On-chain SELL has zero solReceived")

\* buyToken / sellToken (lightning API): success whatever the record shows
FinishLightning(c, tx) ==
    LET d == GetTxDetailsLightning(tx) IN
    IF c.action = "buy"
    THEN Success("buy", c.mint, FALSE, c.amount.n, d.tokensReceived, Num(0), 0)
    ELSE Success("sell", c.mint, FALSE, 0, 0, c.amount, d.solReceived)

\* swapToken (Jupiter): success whatever the record shows
FinishSwap(c, tx) ==
    Success("sell", c.mint, FALSE, 0, 0, c.amount, ParseSwapTx(tx))

Finish(c, tx) ==
    IF c.api = "jupiter" THEN FinishSwap(c, tx)
    ELSE IF c.api = "lightning" THEN FinishLightning(c, tx)
    ELSE IF c.action = "buy" THEN VerifyBuyLocal(c, tx)
    ELSE VerifySellLocal(c, tx)

\* ------------------------------------------------- waitForConfirmation
\* the try body of one loop iteration of the local API
TryStatusLocal(st) ==
    IF st.kind = "throw" THEN "throw"
    ELSE IF st.kind = "null" THEN "next"
    ELSE IF st.err THEN "throw"
    ELSE IF st.status \in {"confirmed", "finalized"} THEN "return true"
    ELSE "next"

\* one iteration of the local API: the catch around the body swallows what
\* the body throws, the status.err error included
WaitStepLocal(st) ==
    IF TryStatusLocal(st) = "throw" THEN "next" ELSE TryStatusLocal(st)

\* one iteration of the lightning API and of the Jupiter executor: only
\* confirmationStatus is looked at
WaitStepOther(st) ==
    IF st.kind = "value" /\ st.status \in {"confirmed", "finalized"}
    THEN "return true" ELSE "next"

WaitStep(api, st) == IF api = "local" THEN WaitStepLocal(st) ELSE WaitStepOther(st)

\* getSignatureStatus calls issued so far by the running waitForConfirmation
StatusQueries == i + (IF confirmed = "true" THEN 1 ELSE 0)

\* ------------------------------------------------------ executor calls
Calls ==
    [api : {"local", "lightning"}, action : {"buy"}, mint : Mints, amount : BuyAmounts]
    \cup [api : {"local"}, action : {"sell"}, mint : Mints, amount : SellAmounts]
    \cup [api : {"lightning", "jupiter"}, action : {"sell"}, mint : Mints,
          amount : {a \in SellAmounts : ~a.str}]

\* what the construction endpoint / trade endpoint / quote endpoint answers
RequestOutcomes(api) ==
    IF api = "local" THEN {"throw", "non200", "empty", "ok"}
    ELSE IF api = "lightning" THEN {"throw", "non200", "empty", "nosig", "ok"}
    ELSE {"throw", "noout", "ok"}

EndCall(res, step) ==
    /\ result' = res
    /\ failedStep' = step
    /\ pc' = "done"

\* buyToken / sellToken / swapToken up to the first await
StartCallWith(c) ==
    /\ call' = c
    /\ i' = 0
    /\ confirmed' = "pending"
    /\ txResp' = NoTx
    /\ net' = NoNet
    /\ statusErrSeen' = FALSE
    /\ queriedAfterErr' = FALSE
    /\ IF dryRun
       THEN EndCall(Simulate(c), "none")
       ELSE /\ pc' = "request"
            /\ result' = NoResult
            /\ failedStep' = "none"
    /\ UNCHANGED dryRun

StartCall ==
    /\ pc = "idle"
    /\ \E c \in Calls : StartCallWith(c)
    /\ UNCHANGED nonExecVars

\* a mutant of SellAmountField: the caller's amount goes out as it came
SellAmountFieldAsGiven(amountTokens) == amountTokens

\* sellAmountField: typeof amountTokens === 'string' &&
\* amountTokens.trim().endsWith('%') ? amountTokens : '100%'
SellAmountField(amountTokens) ==
    IF amountTokens.str /\ amountTokens.pct THEN amountTokens ELSE Pct(100)

\* the amount field of the payload: sellAmountField for a local sell, the
\* caller's amount for a local buy and for both lightning trades; the
\* Jupiter quote asks for the caller's token quantity
PayloadAmount(c) ==
    IF c.api = "local" /\ c.action = "sell" THEN SellAmountField(c.amount)
    ELSE c.amount

\* axios.post to the construction endpoint (local), to /trade (lightning);
\* getTokenDecimals and the quote request (Jupiter)
RequestWith(o) ==
    /\ net' = [net EXCEPT !.request = @ + 1, !.sent = PayloadAmount(call)]
    /\ IF o = "ok"
       THEN /\ pc' = (IF call.api = "local" THEN "sign"
                      ELSE IF call.api = "lightning" THEN "poll" ELSE "swapreq")
            /\ UNCHANGED <<result, failedStep>>
       ELSE EndCall(Caught(call.action, call.mint, o), "request")
    /\ UNCHANGED <<dryRun, call, i, confirmed, txResp, statusErrSeen, queriedAfterErr>>

Request ==
    /\ pc = "request"
    /\ \E o \in RequestOutcomes(call.api) : RequestWith(o)
    /\ UNCHANGED nonExecVars

\* axios.post to the Jupiter swap endpoint
SwapRequestWith(o) ==
    /\ net' = [net EXCEPT !.request = @ + 1]
    /\ IF o = "ok"
       THEN /\ pc' = "sign"
            /\ UNCHANGED <<result, failedStep>>
       ELSE EndCall(Caught(call.action, call.mint, o), "request")
    /\ UNCHANGED <<dryRun, call, i, confirmed, txResp, statusErrSeen, queriedAfterErr>>

SwapRequest ==
    /\ pc = "swapreq"
    /\ \E o \in {"throw", "notx", "ok"} : SwapRequestWith(o)
    /\ UNCHANGED nonExecVars

\* VersionedTransaction.deserialize and tx.sign
SignWith(o) ==
    /\ IF o = "ok"
       THEN /\ pc' = "send"
            /\ UNCHANGED <<result, failedStep>>
       ELSE EndCall(Caught(call.action, call.mint, o), o)
    /\ UNCHANGED <<dryRun, call, i, confirmed, txResp, net, statusErrSeen,
                   queriedAfterErr>>

Sign ==
    /\ pc = "sign"
    /\ \E o \in {"deserialize", "sign", "ok"} : SignWith(o)
    /\ UNCHANGED nonExecVars

\* connection.sendTransaction
SendWith(o) ==
    /\ net' = [net EXCEPT !.send = @ + 1]
    /\ IF o = "ok"
       THEN /\ pc' = "poll"
            /\ UNCHANGED <<result, failedStep>>
       ELSE EndCall(Caught(call.action, call.mint, o), "send")
    /\ UNCHANGED <<dryRun, call, i, confirmed, txResp, statusErrSeen, queriedAfterErr>>

Send ==
    /\ pc = "send"
    /\ \E o \in {"throw", "ok"} : SendWith(o)
    /\ UNCHANGED nonExecVars

\* a loop that starts counting anew when the query threw
PollWithRestartOnThrow(st) ==
    /\ queriedAfterErr' = (queriedAfterErr \/ statusErrSeen)
    /\ statusErrSeen' = (statusErrSeen \/ (st.kind = "value" /\ st.err))
    /\ IF WaitStep(call.api, st) = "return true"
       THEN /\ confirmed' = "true"
            /\ pc' = "waited"
            /\ i' = i
       ELSE /\ i' = IF st.kind = "throw" THEN 0 ELSE i + 1
            /\ IF st.kind = "throw" \/ i + 1 < MaxPollAttempts
               THEN /\ pc' = "poll"
                    /\ confirmed' = confirmed
               ELSE /\ pc' = "waited"
                    /\ confirmed' = "false"
    /\ UNCHANGED <<dryRun, call, txResp, result, failedStep, net>>

\* one iteration of waitForConfirmation: getSignatureStatus, then either
\* return true, or sleep 1 s and go on; after the last iteration return false
PollWith(st) ==
    /\ queriedAfterErr' = (queriedAfterErr \/ statusErrSeen)
    /\ statusErrSeen' = (statusErrSeen \/ (st.kind = "value" /\ st.err))
    /\ IF WaitStep(call.api, st) = "return true"
       THEN /\ confirmed' = "true"
            /\ pc' = "waited"
            /\ i' = i
       ELSE /\ i' = i + 1
            /\ IF i + 1 < MaxPollAttempts
               THEN /\ pc' = "poll"
                    /\ confirmed' = confirmed
               ELSE /\ pc' = "waited"
                    /\ confirmed' = "false"
    /\ UNCHANGED <<dryRun, call, txResp, result, failedStep, net>>

Poll ==
    /\ pc = "poll"
    /\ i < MaxPollAttempts
    /\ \E st \in StatusResponses : PollWith(st)
    /\ UNCHANGED nonExecVars

\* `await this.waitForConfirmation(signature)` resumes: the value returned is
\* dropped by the caller, the loop counter is gone with the callee
Awaited ==
    /\ pc = "waited"
    /\ pc' = "fetch"
    /\ i' = 0
    /\ UNCHANGED <<dryRun, call, confirmed, txResp, result, net, statusErrSeen,
                   queriedAfterErr, failedStep, nonExecVars>>

\* a call that starts over once when the verification fails
FetchWithRetry(tx) ==
    /\ net' = [net EXCEPT !.fetch = @ + 1]
    /\ txResp' = tx
    /\ LET res == Finish(call, tx)
       IN IF ~res.success /\ net.fetch = 0
          THEN /\ pc' = "request"
               /\ UNCHANGED <<result, failedStep>>
          ELSE EndCall(res, IF res.success THEN "none" ELSE "verify")
    /\ UNCHANGED <<dryRun, call, i, confirmed, statusErrSeen, queriedAfterErr>>

\* getTxDetails / parseSwapTx and the checks that follow it
FetchWith(tx) ==
    /\ net' = [net EXCEPT !.fetch = @ + 1]
    /\ txResp' = tx
    /\ LET res == Finish(call, tx)
       IN EndCall(res, IF res.success THEN "none" ELSE "verify")
    /\ UNCHANGED <<dryRun, call, i, confirmed, statusErrSeen, queriedAfterErr>>

Fetch ==
    /\ pc = "fetch"
    /\ \E tx \in TxRecords : FetchWith(tx)
    /\ UNCHANGED nonExecVars

\* the caller takes the result; the executor is free for the next call
Return ==
    /\ pc = "done"
    /\ pc' = "idle"
    /\ call' = NoCall
    /\ i' = 0
    /\ confirmed' = "pending"
    /\ txResp' = NoTx
    /\ result' = NoResult
    /\ net' = NoNet
    /\ statusErrSeen' = FALSE
    /\ queriedAfterErr' = FALSE
    /\ failedStep' = "none"
    /\ UNCHANGED <<dryRun, nonExecVars>>

InitExec ==
    /\ dryRun \in BOOLEAN
    /\ pc = "idle"
    /\ call = NoCall
    /\ i = 0
    /\ confirmed = "pending"
    /\ txResp = NoTx
    /\ result = NoResult
    /\ net = NoNet
    /\ statusErrSeen = FALSE
    /\ queriedAfterErr = FALSE
    /\ failedStep = "none"

NextExec ==
    \/ StartCall
    \/ Request
    \/ SwapRequest
    \/ Sign
    \/ Send
    \/ Poll
    \/ Awaited
    \/ Fetch
    \/ Return

\* --------------------------------------------------------- price service
\* Prices are the code's numbers times 1e9 (SOL per token as lamports per
\* token); 0 stands for null / undefined.  graduated is FALSE where the code
\* leaves the field out.
NoQuote == [mint |-> "none", price |-> 0, source |-> "absent", graduated |-> FALSE,
            ts |-> 0, stale |-> FALSE, error |-> ""]
NoFailed == [count |-> 0, lastAttempt |-> 0]
NoJup == [price |-> 0, timestamp |-> 0]

Quote(m, price, source, graduated, ts) ==
    [mint |-> m, price |-> price, source |-> source, graduated |-> graduated,
     ts |-> ts, stale |-> FALSE, error |-> ""]

\* what getAccountInfo(curveAddress) answers: no account, or the parsed fields
\* (vTok in whole tokens, vSol in lamports; an empty curve has vSol = 0)
NoCurve == [kind |-> "none", vTok |-> 0, vSol |-> 0, complete |-> FALSE]
Curves ==
    {NoCurve} \cup [kind : {"account"}, vTok : {1}, vSol : 0..MaxOut, complete : BOOLEAN]

\* PriceService.getPumpFunPrice: null without an account and on any error
\* (zero reserves throw inside the try); else price and graduated = complete
GetPumpFunPrice(curve) ==
    IF curve.kind = "none" THEN [isNull |-> TRUE, price |-> 0, graduated |-> FALSE]
    ELSE IF curve.vTok <= 0 \/ curve.vSol <= 0
    THEN [isNull |-> TRUE, price |-> 0, graduated |-> FALSE]
    ELSE [isNull |-> FALSE, price |-> curve.vSol \div curve.vTok,
          graduated |-> curve.complete]

\* JupiterPriceService.getPrice(mint, forceFresh) at time t, the quote request
\* answering outAmount `out` (0: the request fails or has no outAmount):
\* price = Number(outAmount) / 1_000_000
JupiterGetPrice(m, forceFresh, out, t) ==
    LET old == jupCache[m] IN
    IF ~forceFresh /\ old.price > 0 /\ t - old.timestamp < cacheMaxAge
    THEN [price |-> old.price, source |-> "cache", fetched |-> FALSE, cache |-> jupCache]
    ELSE IF out > 0
    THEN [price |-> out * 1000, source |-> "jupiter", fetched |-> TRUE,
          cache |-> [jupCache EXCEPT ![m] = [price |-> out * 1000, timestamp |-> t]]]
    ELSE IF old.price > 0
    THEN [price |-> old.price, source |-> "cache-fallback", fetched |-> TRUE,
          cache |-> jupCache]
    ELSE [price |-> 0, source |-> "none", fetched |-> TRUE, cache |-> jupCache]

\* PriceService.getPriceForGraduated: always forces a fresh Jupiter quote
GetPriceForGraduated(m, out, t) ==
    LET jup == JupiterGetPrice(m, TRUE, out, t) IN
    IF jup.price > 0
    THEN [price |-> jup.price, source |-> jup.source, cache |-> jup.cache]
    ELSE [price |-> 0, source |-> "jupiter", cache |-> jup.cache]

\* a backoff test that never lets an old entry go
BackoffNeverResets(entry, forceFresh, t) ==
    IF ~forceFresh /\ entry.count > 0
    THEN IF entry.count >= maxFailedAttempts THEN "suppress" ELSE "go"
    ELSE "go"

\* a backoff test that lets one more attempt through
BackoffOffByOne(entry, forceFresh, t) ==
    IF ~forceFresh /\ entry.count > 0
    THEN IF t - entry.lastAttempt > failedAttemptsResetMs THEN "reset"
         ELSE IF entry.count > maxFailedAttempts THEN "suppress" ELSE "go"
    ELSE "go"

\* getPrice, the failed-attempts test at its head: "reset" deletes the entry,
\* "suppress" answers without querying, "go" goes on
Backoff(entry, forceFresh, t) ==
    IF ~forceFresh /\ entry.count > 0
    THEN IF t - entry.lastAttempt > failedAttemptsResetMs THEN "reset"
         ELSE IF entry.count >= maxFailedAttempts THEN "suppress" ELSE "go"
    ELSE "go"

\* a freshness test with the comparison turned round
CacheFreshInverted(cached, forceFresh, t) ==
    /\ ~forceFresh
    /\ cached # NoQuote
    /\ t - cached.ts > cacheMs

\* getPrice, the normal cache test
CacheFresh(cached, forceFresh, t) ==
    /\ ~forceFresh
    /\ cached # NoQuote
    /\ t - cached.ts < cacheMs

\* a record that counts the failure and keeps the old stamp
RecordFailedAttemptKeepingStamp(entry, t) ==
    [count |-> entry.count + 1, lastAttempt |-> entry.lastAttempt]

\* recordFailedAttempt at time t
RecordFailedAttempt(entry, t) == [count |-> entry.count + 1, lastAttempt |-> t]

\* a return that stores whatever quote it answers with
OutcomeCachingAll(quote, cache, failed, jup, asked, path) ==
    [quote |-> quote, cache |-> [cache EXCEPT ![quote.mint] = quote], failed |-> failed,
     jup |-> jup, net |-> asked, path |-> path]

\* what one getPrice call returns and leaves in the three maps
Outcome(quote, cache, failed, jup, asked, path) ==
    [quote |-> quote, cache |-> cache, failed |-> failed, jup |-> jup,
     net |-> asked, path |-> path]

\* a call that asks its three sources at once and picks afterwards
AskedAllAtOnce(path) ==
    IF path \in {"backoff", "cache"} THEN {} ELSE {"rpc", "jupiter", "dexscreener"}

\* the sources getPrice has awaited when it returns at `path`: none on the
\* two paths that answer from the maps, the curve read before the pump.fun
\* return, Jupiter as well before the next, DexScreener as well after that
Asked(path) ==
    IF path \in {"backoff", "cache"} THEN {}
    ELSE IF path = "pump" THEN {"rpc"}
    ELSE IF path = "jupiter" THEN {"rpc", "jupiter"}
    ELSE {"rpc", "jupiter", "dexscreener"}

\* PriceService.getPrice(m, {forceFresh}) started at `now`; the sources answer
\* curve / out / dexPrice when asked, recordFailedAttempt runs at now + d
GetPrice(m, forceFresh, curve, out, dexPrice, d) ==
    LET b == Backoff(failedAttempts[m], forceFresh, now)
        failed1 == IF b = "reset" THEN [failedAttempts EXCEPT ![m] = NoFailed]
                   ELSE failedAttempts
        cached == priceCache[m]
        pump == GetPumpFunPrice(curve)
        jup == GetPriceForGraduated(m, out, now)
        cleared == [failed1 EXCEPT ![m] = NoFailed]
    IN
    IF b = "suppress"
    THEN IF cached # NoQuote
         THEN Outcome(cached, priceCache, failed1, jupCache, {}, "backoff")
         ELSE Outcome([Quote(m, 0, "skipped", FALSE, now) EXCEPT
                           !.error = "Too many failed attempts"],
                      priceCache, failed1, jupCache, {}, "backoff")
    ELSE IF CacheFresh(cached, forceFresh, now)
    THEN Outcome(cached, priceCache, failed1, jupCache, {}, "cache")
    ELSE IF ~pump.isNull /\ pump.price > 0 /\ ~pump.graduated
    THEN LET q == Quote(m, pump.price, "pump.fun", FALSE, now)
         IN Outcome(q, [priceCache EXCEPT ![m] = q], cleared, jupCache,
                    Asked("pump"), "pump")
    ELSE IF jup.price > 0
    THEN LET q == Quote(m, jup.price, jup.source, TRUE, now)
         IN Outcome(q, [priceCache EXCEPT ![m] = q], cleared, jup.cache,
                    Asked("jupiter"), "jupiter")
    ELSE IF dexPrice > 0
    THEN LET q == Quote(m, dexPrice, "dexscreener", TRUE, now)
         IN Outcome(q, [priceCache EXCEPT ![m] = q], cleared, jup.cache,
                    Asked("dexscreener"), "dexscreener")
    ELSE LET failed2 == [failed1 EXCEPT ![m] = RecordFailedAttempt(@, now + d)]
         IN IF cached # NoQuote
            THEN Outcome([cached EXCEPT !.stale = TRUE], priceCache, failed2,
                         jup.cache, Asked("miss"), "miss")
            ELSE Outcome([Quote(m, 0, "none", FALSE, now) EXCEPT
                              !.error = "No price source available"],
                         priceCache, failed2, jup.cache,
                         Asked("miss"), "miss")

NoLast == [mint |-> "none", forceFresh |-> FALSE, at |-> 0, quote |-> NoQuote,
           net |-> {}, path |-> "none", curveComplete |-> FALSE,
           cacheBefore |-> NoQuote, cacheDoneBefore |-> 0, jupBefore |-> NoJup,
           missesBefore |-> <<>>, failedBefore |-> NoFailed, curve |-> NoCurve,
           out |-> 0, dexPrice |-> 0]

LastThree(s) == IF Len(s) > maxFailedAttempts THEN Tail(s) ELSE s

\* one getPrice call, from its first line to its return
GetPriceCallWith(m, forceFresh, curve, out, dexPrice, d) ==
    LET r == GetPrice(m, forceFresh, curve, out, dexPrice, d)
        took == IF r.net = {} THEN 0 ELSE d
        found == r.path \in {"pump", "jupiter", "dexscreener"}
    IN
    /\ now + took <= MaxNow + failedAttemptsResetMs
    /\ now' = now + took
    /\ priceCache' = r.cache
    /\ failedAttempts' = r.failed
    /\ jupCache' = r.jup
    /\ misses' = [misses EXCEPT ![m] =
                     IF found THEN <<>>
                     ELSE IF r.path = "miss" THEN LastThree(Append(@, now + d))
                     ELSE @]
    /\ last' = [mint |-> m, forceFresh |-> forceFresh, at |-> now, quote |-> r.quote,
                net |-> r.net, path |-> r.path,
                curveComplete |-> ("rpc" \in r.net /\ curve.kind = "account"
                                   /\ curve.complete),
                cacheBefore |-> priceCache[m],
                cacheDoneBefore |-> cacheDone[m],
                jupBefore |-> jupCache[m],
                missesBefore |-> misses[m],
                failedBefore |-> failedAttempts[m],
                curve |-> curve, out |-> out, dexPrice |-> dexPrice]
    /\ cacheDone' = IF found THEN [cacheDone EXCEPT ![m] = now + took] ELSE cacheDone
    /\ UNCHANGED nonPriceVars

\* the call answers from what it holds, without asking any source
AnswersLocally(m, forceFresh) ==
    \/ Backoff(failedAttempts[m], forceFresh, now) = "suppress"
    \/ CacheFresh(priceCache[m], forceFresh, now)

\* the bonding curve gives the price: if (pump && pump.price && !pump.graduated)
PumpAnswers(curve) ==
    LET pump == GetPumpFunPrice(curve)
    IN ~pump.isNull /\ pump.price > 0 /\ ~pump.graduated

\* each source answers only when the call gets as far as asking it
GetPriceCall ==
    /\ now <= MaxNow + failedAttemptsResetMs
    /\ \E m \in PriceMints, forceFresh \in BOOLEAN :
          IF AnswersLocally(m, forceFresh)
          THEN GetPriceCallWith(m, forceFresh, NoCurve, 0, 0, TickMs)
          ELSE \E curve \in Curves :
                 IF PumpAnswers(curve)
                 THEN GetPriceCallWith(m, forceFresh, curve, 0, 0, TickMs)
                 ELSE \E out \in 0..MaxOut :
                        IF GetPriceForGraduated(m, out, now).price > 0
                        THEN GetPriceCallWith(m, forceFresh, curve, out, 0, TickMs)
                        ELSE \E dexPrice \in 0..MaxOut :
                               GetPriceCallWith(m, forceFresh, curve, out, dexPrice, TickMs)

\* time passes between calls; the caller has taken the last answer
Tick ==
    /\ now + TickMs <= MaxNow
    /\ now' = now + TickMs
    /\ last' = NoLast
    /\ UNCHANGED <<nonPriceVars, priceCache, failedAttempts, jupCache, cacheDone, misses>>

\* nothing is asked for as long as the failed-attempts window
Idle ==
    /\ now <= MaxNow
    /\ now' = now + failedAttemptsResetMs
    /\ last' = NoLast
    /\ UNCHANGED <<nonPriceVars, priceCache, failedAttempts, jupCache, cacheDone, misses>>

InitPrice ==
    /\ now = 0
    /\ priceCache = [m \in PriceMints |-> NoQuote]
    /\ failedAttempts = [m \in PriceMints |-> NoFailed]
    /\ jupCache = [m \in PriceMints |-> NoJup]
    /\ misses = [m \in PriceMints |-> <<>>]
    /\ last = NoLast
    /\ cacheDone = [m \in PriceMints |-> 0]

\* ------------------------------------------------ CopyStrategy.shouldExit
\* Prices are integers in one price unit; a percentage test of the code,
\* (a - b) / b * 100 >= t, is made as (a - b) * 100 >= t * b (b > 0).
DefaultConfig ==
    [takeProfitEnabled |-> TRUE, takeProfitPercent |-> takeProfitPercent,
     trailingStopEnabled |-> TRUE, trailingStopPercent |-> trailingStopPercent,
     stopLossEnabled |-> TRUE, stopLoss |-> stopLoss,
     maxHoldEnabled |-> FALSE, maxHoldSeconds |-> maxHoldSeconds,
     minWalletsToSell |-> minWalletsToSell,
     minWalletsToBuy |-> minWalletsToBuy, blockRebuys |-> TRUE,
     rebuyWindow |-> rebuyWindow]

\* what the constructor can read: each trigger switched on or off, and a
\* profit target set below the stop-loss limit
Configs ==
    [takeProfitEnabled : BOOLEAN, takeProfitPercent : {takeProfitPercent, -2 * stopLoss},
     trailingStopEnabled : BOOLEAN, trailingStopPercent : {trailingStopPercent},
     stopLossEnabled : BOOLEAN, stopLoss : {stopLoss},
     maxHoldEnabled : BOOLEAN, maxHoldSeconds : {maxHoldSeconds},
     minWalletsToSell : {minWalletsToSell},
     minWalletsToBuy : {minWalletsToBuy}, blockRebuys : {TRUE},
     rebuyWindow : {rebuyWindow}]

NoExitIn == [kind |-> "none"]
NoExitOut == [exit |-> FALSE, reason |-> "none", priority |-> 0, exitType |-> "none",
              status |-> "none"]

\* the arguments of shouldExit and what it reads: the position (maxPrice 0:
\* the field is absent), the current price, Date.now() - entryTime, and the
\* answer of redis.smembers for the sellers (-1: the read throws)
ExitInputs ==
    {[kind |-> "noposition"]}
    \cup [kind : {"position"}, entryPrice : 1..MaxPrice, maxPrice : 0..MaxPrice,
          currentPrice : 0..MaxPrice,
          heldMs : {maxHoldSeconds * 1000 - 1, maxHoldSeconds * 1000},
          sellers : {-1, 0, minWalletsToSell}]

\* a count that takes a failed read for one seller
CountSellersOneOnError(sellers) == IF sellers < 0 THEN 1 ELSE sellers

\* countSellers: sellers.length, 0 when the read throws
CountSellers(sellers) == IF sellers < 0 THEN 0 ELSE sellers

ExitWith(reason, exitType, priority) ==
    [exit |-> TRUE, reason |-> reason, priority |-> priority, exitType |-> exitType,
     status |-> "exit"]

\* the five tests of shouldExit, each as the code writes it
TakeProfitHit(c, in) ==
    /\ c.takeProfitEnabled
    /\ (in.currentPrice - in.entryPrice) * 100 >= c.takeProfitPercent * in.entryPrice

MaxPriceOf(in) == IF in.maxPrice = 0 THEN in.entryPrice ELSE in.maxPrice

\* a trailing stop that is armed without the position ever having been up
TrailingStopHitUnarmed(c, in) ==
    /\ c.trailingStopEnabled
    /\ in.currentPrice * 100 <= MaxPriceOf(in) * (100 - c.trailingStopPercent)

\* this.trailingStopEnabled && maxPnlPercent > 0, then currentPrice <= trailingPrice
TrailingStopHit(c, in) ==
    /\ c.trailingStopEnabled
    /\ MaxPriceOf(in) - in.entryPrice > 0
    /\ in.currentPrice * 100 <= MaxPriceOf(in) * (100 - c.trailingStopPercent)

StopLossHit(c, in) ==
    /\ c.stopLossEnabled
    /\ (in.currentPrice - in.entryPrice) * 100 <= (-c.stopLoss) * in.entryPrice

TradersSoldHit(c, in) == CountSellers(in.sellers) >= c.minWalletsToSell

MaxHoldHit(c, in) ==
    /\ c.maxHoldEnabled
    /\ in.heldMs >= c.maxHoldSeconds * 1000

\* an evaluation that tests the stop loss before the profit target
ShouldExitStopLossFirst(c, in) ==
    IF in.kind # "position" THEN NoExitOut
    ELSE IF StopLossHit(c, in) THEN ExitWith("stop_loss", "automatic", 3)
    ELSE IF TakeProfitHit(c, in) THEN ExitWith("take_profit", "automatic", 1)
    ELSE IF TrailingStopHit(c, in) THEN ExitWith("trailing_stop", "automatic", 2)
    ELSE IF TradersSoldHit(c, in) THEN ExitWith("traders_sold", "signal", 4)
    ELSE IF MaxHoldHit(c, in) THEN ExitWith("max_hold_time", "timeout", 5)
    ELSE [NoExitOut EXCEPT !.status = "holding"]

\* CopyStrategy.shouldExit; without a position the body throws and the catch
\* answers { exit: false }
ShouldExit(c, in) ==
    IF in.kind # "position" THEN NoExitOut
    ELSE IF TakeProfitHit(c, in) THEN ExitWith("take_profit", "automatic", 1)
    ELSE IF TrailingStopHit(c, in) THEN ExitWith("trailing_stop", "automatic", 2)
    ELSE IF StopLossHit(c, in) THEN ExitWith("stop_loss", "automatic", 3)
    ELSE IF TradersSoldHit(c, in) THEN ExitWith("traders_sold", "signal", 4)
    ELSE IF MaxHoldHit(c, in) THEN ExitWith("max_hold_time", "timeout", 5)
    ELSE [NoExitOut EXCEPT !.status = "holding"]

\* new CopyStrategy() under some environment
Construct ==
    /\ exitIn = NoExitIn
    /\ \E c \in Configs : cfg' = c
    /\ exitIn' = NoExitIn
    /\ exitOut' = NoExitOut
    /\ UNCHANGED <<nonStrategyVars, entryVars>>

\* one shouldExit(position, currentPrice) call, from entry to return
ShouldExitCall ==
    /\ exitIn = NoExitIn
    /\ \E in \in ExitInputs :
          /\ exitIn' = in
          /\ exitOut' = ShouldExit(cfg, in)
    /\ UNCHANGED <<cfg, nonStrategyVars, entryVars>>

\* the caller has taken the answer; the next evaluation can start
ExitTaken ==
    /\ exitIn # NoExitIn
    /\ exitIn' = NoExitIn
    /\ exitOut' = NoExitOut
    /\ UNCHANGED <<cfg, nonStrategyVars, entryVars>>

InitExit ==
    /\ cfg = DefaultConfig
    /\ exitIn = NoExitIn
    /\ exitOut = NoExitOut

NextExit ==
    \/ Construct
    \/ ShouldExitCall
    \/ ExitTaken

\* ------------------------------------------------ CopyStrategy.shouldCopy
EntryMints == {"mintA", "mintB", "mintC"}
Wallets == {"w1", "w2"}
\* copySignal.walletAddress is undefined
NoWallet == "none"

\* the environments that set BLOCK_REBUYS
EntryConfigs == {[DefaultConfig EXCEPT !.blockRebuys = b] : b \in BOOLEAN}

\* the store as shouldCopy reads it: the set open_positions, the walletSource
\* field of position:mintA (read only while mintA is in the set) and whether
\* the key copy_cooldown:mintA exists
Stores == [open : SUBSET EntryMints, walletSource : Wallets, cooldown : BOOLEAN]

CopySignals == [mint : {"mintA"}, upvotes : 0..MaxUpvotes,
                walletAddress : {NoWallet, "w1"}]

\* one entry of a trades:<day> list: a record that parses, with
\* timeSinceClosed = Date.now() - parseInt(closedAt) in ms as the loop computes
\* it, or a string JSON.parse rejects
TradeRecords ==
    [kind : {"trade"}, mint : {"mintA", "mintB"}, walletSource : Wallets,
     timeSinceClosed : {30000, rebuyWindow * 1000 - 1, rebuyWindow * 1000, 400000}]
    \cup {[kind |-> "malformed"]}

NoTrades == [day |-> 0, list |-> <<>>]

\* the history lists: empty, or one entry in today's list (day 0) or in the
\* list of the day before (day 1)
TradeLists ==
    {NoTrades} \cup [day : {0, 1}, list : {<<r>> : r \in TradeRecords}]

TradesOf(trades, day) == IF trades.day = day THEN trades.list ELSE <<>>

\* the store read that throws during isRebuySignal: none, the sismember, the
\* hgetall, or the lrange of a day
NoFail == [read |-> "none", day |-> 0]
FailReads ==
    {NoFail, [read |-> "sismember", day |-> 0], [read |-> "hgetall", day |-> 0]}
    \cup [read : {"lrange"}, day : 0..HistoryDays]

\* the test both history loops make on one entry
RecentTrade(c, rec, mint, walletAddress) ==
    /\ rec.kind = "trade"
    /\ rec.mint = mint
    /\ rec.walletSource = walletAddress
    /\ rec.timeSinceClosed < c.rebuyWindow * 1000

\* the two loops, from today's list (day 0) to the last day searched
RECURSIVE ScanHistory(_, _, _, _, _, _, _)
ScanHistory(c, trades, fail, mint, walletAddress, day, lastDay) ==
    IF day > lastDay THEN FALSE
    ELSE IF fail.read = "lrange" /\ fail.day = day THEN FALSE
    ELSE IF \E k \in 1..Len(TradesOf(trades, day)) :
                RecentTrade(c, TradesOf(trades, day)[k], mint, walletAddress)
         THEN TRUE
    ELSE ScanHistory(c, trades, fail, mint, walletAddress, day + 1, lastDay)

\* a search that reads today's list only
IsRebuySignalTodayOnly(c, store, trades, fail, mint, walletAddress) ==
    IF walletAddress = NoWallet THEN FALSE
    ELSE IF fail.read = "sismember" THEN FALSE
    ELSE IF mint \in store.open /\ fail.read = "hgetall" THEN FALSE
    ELSE IF mint \in store.open /\ store.walletSource = walletAddress THEN TRUE
    ELSE ScanHistory(c, trades, fail, mint, walletAddress, 0, 0)

\* CopyStrategy.isRebuySignal; a read that throws lands in the catch, which
\* answers false
IsRebuySignal(c, store, trades, fail, mint, walletAddress) ==
    IF walletAddress = NoWallet THEN FALSE
    ELSE IF fail.read = "sismember" THEN FALSE
    ELSE IF mint \in store.open /\ fail.read = "hgetall" THEN FALSE
    ELSE IF mint \in store.open /\ store.walletSource = walletAddress THEN TRUE
    ELSE ScanHistory(c, trades, fail, mint, walletAddress, 0, HistoryDays)

\* whether isRebuySignal gets as far as the read that throws
RebuyReadThrew(c, store, trades, fail, mint, walletAddress) ==
    IF walletAddress = NoWallet \/ fail.read = "none" THEN FALSE
    ELSE IF fail.read = "sismember" THEN TRUE
    ELSE IF mint \in store.open /\ fail.read = "hgetall" THEN TRUE
    ELSE IF mint \in store.open /\ store.walletSource = walletAddress THEN FALSE
    ELSE IF fail.read = "hgetall" THEN FALSE
    ELSE ~ScanHistory(c, trades, NoFail, mint, walletAddress, 0, fail.day - 1)

NoSignal == [mint |-> "none", upvotes |-> 0, walletAddress |-> NoWallet]
NoEntryIn == [kind |-> "none"]
\* rebuyFailed: a store read of isRebuySignal threw; readFailed: one of the
\* three reads of shouldCopy itself threw
NoSeen == [cooldown |-> FALSE, hasPosition |-> FALSE, openPositions |-> 0,
           rebuyFailed |-> FALSE, readFailed |-> FALSE]
NoEntryOut == [copy |-> FALSE, reason |-> "none", mode |-> "none", confidence |-> 0]

\* a score that gives 95 only above three wallets
CalculateConfidenceAboveThree(upvotes) ==
    IF upvotes = 1 THEN 30
    ELSE IF upvotes = 2 THEN 70
    ELSE IF upvotes > 3 THEN 95
    ELSE 50

\* calculateConfidence(upvotes)
CalculateConfidence(upvotes) ==
    IF upvotes = 1 THEN 30
    ELSE IF upvotes = 2 THEN 70
    ELSE IF upvotes >= 3 THEN 95
    ELSE 50

Reject(reason) == [copy |-> FALSE, reason |-> reason, mode |-> "none", confidence |-> 0]
Approve(dry, upvotes) ==
    [copy |-> TRUE, reason |-> "none", mode |-> IF dry THEN "paper" ELSE "live",
     confidence |-> CalculateConfidence(upvotes)]

\* a limit test that lets one position too many through
MaxPositionsReachedOffByOne(openPositions) == openPositions > maxPositions

\* openPositions >= maxPositions
MaxPositionsReached(openPositions) == openPositions >= maxPositions

\* a wallet test that is made in simulation too
LowUpvotesAnyMode(c, dry, upvotes) == upvotes < c.minWalletsToBuy

\* !dryRun && upvotes < this.minWalletsToBuy
LowUpvotes(c, dry, upvotes) == ~dry /\ upvotes < c.minWalletsToBuy

\* new CopyStrategy() under an environment that sets BLOCK_REBUYS
ConstructEntry ==
    /\ entryPc = "idle"
    /\ exitIn = NoExitIn
    /\ \E c \in EntryConfigs : cfg' = c
    /\ UNCHANGED <<exitIn, exitOut, nonStrategyVars, entryVars>>

\* shouldCopy(copySignal) up to its first await: the wallet-count test
ShouldCopyStart ==
    /\ entryPc = "idle"
    /\ \E sig \in CopySignals :
          /\ copySignal' = sig
          /\ IF LowUpvotes(cfg, dryRun, sig.upvotes)
             THEN /\ entryOut' = Reject("low_upvotes")
                  /\ entryPc' = "done"
             ELSE /\ entryOut' = NoEntryOut
                  /\ entryPc' = IF cfg.blockRebuys THEN "rebuy" ELSE "cooldown"
    /\ entryIn' = NoEntryIn
    /\ seen' = NoSeen
    /\ UNCHANGED <<redis, exitVars, nonStrategyVars>>

\* what isRebuySignal answered, recorded with what it read
RebuyAnswer(trades, fail) ==
    /\ entryIn' = [kind |-> "rebuy", store |-> redis, trades |-> trades, fail |-> fail,
                   isRebuy |-> IsRebuySignal(cfg, redis, trades, fail, copySignal.mint,
                                             copySignal.walletAddress)]
    /\ IF IsRebuySignal(cfg, redis, trades, fail, copySignal.mint, copySignal.walletAddress)
       THEN /\ entryOut' = Reject("rebuy_blocked")
            /\ entryPc' = "done"
       ELSE /\ entryOut' = entryOut
            /\ entryPc' = "rebuyDone"
    /\ seen' = [seen EXCEPT !.rebuyFailed =
                    RebuyReadThrew(cfg, redis, trades, fail, copySignal.mint,
                                   copySignal.walletAddress)]

\* await this.isRebuySignal(mint, walletAddress)
RebuyStep ==
    /\ entryPc = "rebuy"
    /\ IF copySignal.walletAddress = NoWallet
       THEN RebuyAnswer(NoTrades, NoFail)
       ELSE \E trades \in TradeLists, fail \in FailReads : RebuyAnswer(trades, fail)
    /\ UNCHANGED <<redis, copySignal, exitVars, nonStrategyVars>>

\* isRebuy is false: shouldCopy goes on to issue its next read
RebuyPassed ==
    /\ entryPc = "rebuyDone"
    /\ entryPc' = "cooldown"
    /\ entryIn' = NoEntryIn
    /\ UNCHANGED <<redis, copySignal, seen, entryOut, exitVars, nonStrategyVars>>

\* await redis.get(`copy_cooldown:${mint}`)
CooldownStep ==
    /\ entryPc = "cooldown"
    /\ seen' = [seen EXCEPT !.cooldown = redis.cooldown]
    /\ IF redis.cooldown
       THEN /\ entryOut' = Reject("cooldown")
            /\ entryPc' = "done"
       ELSE /\ entryOut' = entryOut
            /\ entryPc' = "member"
    /\ UNCHANGED <<redis, copySignal, entryIn, exitVars, nonStrategyVars>>

\* await redis.sismember('open_positions', mint)
MemberStep ==
    /\ entryPc = "member"
    /\ seen' = [seen EXCEPT !.hasPosition = copySignal.mint \in redis.open]
    /\ IF copySignal.mint \in redis.open
       THEN /\ entryOut' = Reject("duplicate_position")
            /\ entryPc' = "done"
       ELSE /\ entryOut' = entryOut
            /\ entryPc' = "card"
    /\ UNCHANGED <<redis, copySignal, entryIn, exitVars, nonStrategyVars>>

\* await redis.scard('open_positions'), the limit test and the approval
CardStep ==
    /\ entryPc = "card"
    /\ seen' = [seen EXCEPT !.openPositions = Cardinality(redis.open)]
    /\ entryOut' = IF MaxPositionsReached(Cardinality(redis.open))
                   THEN Reject("max_positions")
                   ELSE Approve(dryRun, copySignal.upvotes)
    /\ entryPc' = "done"
    /\ UNCHANGED <<redis, copySignal, entryIn, exitVars, nonStrategyVars>>

\* a catch that lets the signal through
ShouldCopyCatchApproving == Approve(dryRun, copySignal.upvotes)

\* catch (error) { return { copy: false, reason: 'error' } }
ShouldCopyCatch == Reject("error")

\* one of the three reads throws: the catch of shouldCopy
ReadThrows ==
    /\ entryPc \in {"cooldown", "member", "card"}
    /\ entryOut' = ShouldCopyCatch
    /\ entryPc' = "done"
    /\ seen' = [seen EXCEPT !.readFailed = TRUE]
    /\ UNCHANGED <<redis, copySignal, entryIn, exitVars, nonStrategyVars>>

\* the caller has taken the answer
ShouldCopyTaken ==
    /\ entryPc = "done"
    /\ entryPc' = "idle"
    /\ copySignal' = NoSignal
    /\ entryIn' = NoEntryIn
    /\ seen' = NoSeen
    /\ entryOut' = NoEntryOut
    /\ UNCHANGED <<redis, exitVars, nonStrategyVars>>

\* another task of the process writes the store while shouldCopy is idle or
\* suspended at a store read: a position opens or closes, the cooldown key
\* is set or expires
StoreWrite ==
    /\ entryPc \in {"idle", "rebuy", "cooldown", "member", "card"}
    /\ \/ \E m \in EntryMints, w \in Wallets :
             /\ m \notin redis.open
             /\ redis' = [redis EXCEPT !.open = @ \cup {m},
                                       !.walletSource = IF m = "mintA" THEN w ELSE @]
       \/ \E m \in redis.open : redis' = [redis EXCEPT !.open = @ \ {m}]
       \/ redis' = [redis EXCEPT !.cooldown = ~@]
    /\ UNCHANGED <<entryPc, copySignal, entryIn, seen, entryOut, exitVars, nonStrategyVars>>

InitEntry ==
    /\ redis = [open |-> {}, walletSource |-> "w1", cooldown |-> FALSE]
    /\ entryPc = "idle"
    /\ copySignal = NoSignal
    /\ entryIn = NoEntryIn
    /\ seen = NoSeen
    /\ entryOut = NoEntryOut

NextEntry ==
    \/ ConstructEntry
    \/ ShouldCopyStart
    \/ RebuyStep
    \/ RebuyPassed
    \/ CooldownStep
    \/ MemberStep
    \/ CardStep
    \/ ReadThrows
    \/ ShouldCopyTaken
    \/ StoreWrite

\* ------------------------------------------------------ GraduationHandler
GradMints == {"mintA", "mintB"}

\* a position:<mint> hash; "" and 0 stand for a field the hash does not have,
\* -1 for a missing graduationTime
NoHash ==
    [strategy |-> "", status |-> "", executedDex |-> "", graduated |-> "",
     graduationPrice |-> 0, graduationTime |-> -1,
     entryPrice |-> 0, tokensAmount |-> 0, solAmount |-> 0]

\* the hashes a position of the store can start with
OpenHashes ==
    {[NoHash EXCEPT !.strategy = st, !.status = "open", !.executedDex = dex,
                    !.entryPrice = 2, !.tokensAmount = 1000, !.solAmount = 1]
        : st \in {"copy", "sniper"}, dex \in {"", "Pump.fun", "Jupiter"}}

\* what getPriceService() returned: the PriceService of priceService.js has
\* none of the methods the handler looks for; the handler also takes a
\* service with hasGraduated and getPriceFromDEX, or with getPriceWithFallback
GradServices == {"none", "hasGraduated", "getPriceWithFallback"}

\* what getPriceWithFallback answers: null (price 0, source "none") or a quote
FallbackQuotes ==
    [price : {0, 3}, source : {"none", "pump.fun", "jupiter_dex"}, graduated : BOOLEAN]

\* the quote PriceService.getPrice builds for a mint: from the curve, from
\* Jupiter, from DexScreener, or the one with no price
ServiceQuotes ==
    {[price |-> 3, source |-> "pump.fun", graduated |-> FALSE],
     [price |-> 3, source |-> "jupiter", graduated |-> TRUE],
     [price |-> 3, source |-> "dexscreener", graduated |-> TRUE],
     [price |-> 0, source |-> "none", graduated |-> FALSE]}

\* priceData of hasGraduated when getPriceWithFallback answered null
NullQuote == [price |-> 0, source |-> "null", graduated |-> FALSE]

\* the quote the price service has for the mint when hasGraduated runs: what
\* getPriceWithFallback answers where the service has it, nothing the
\* handler looks at where the service has its own check, and the quote of
\* getPrice for the PriceService of this repository
QuotesOf(sv) ==
    IF sv = "getPriceWithFallback" THEN FallbackQuotes \cup {NullQuote}
    ELSE IF sv = "hasGraduated" THEN {NullQuote}
    ELSE ServiceQuotes

NoCheck ==
    [asked |-> FALSE, service |-> "none", own |-> FALSE, quote |-> NullQuote,
     threw |-> FALSE, graduated |-> FALSE]

\* the graduated field of what hasGraduated(mint) returns: own is the answer
\* of priceService.hasGraduated, q the quote, threw whether the call it
\* awaited threw
HasGraduatedAnswer(sv, own, q, threw) ==
    IF threw THEN FALSE
    ELSE IF sv = "hasGraduated" THEN own
    ELSE IF sv = "getPriceWithFallback"
    THEN IF q = NullQuote THEN FALSE
         ELSE q.graduated \/ q.source = "jupiter_dex"
    ELSE FALSE

\* the tests of the loop that end in `continue`, without the two that look
\* at the venue and at the graduated flag
SkipsForeignOnly(h) == h.strategy # "copy"

\* !position || position.strategy !== 'copy'; executedDex && executedDex !==
\* 'Pump.fun'; position.graduated === 'true'
Skips(h) ==
    \/ h.strategy # "copy"
    \/ (h.executedDex # "" /\ h.executedDex # "Pump.fun")
    \/ h.graduated = "true"

\* a write that closes the position as well
GraduationWriteAndClose(h, price, t) ==
    [h EXCEPT !.executedDex = "Jupiter", !.graduated = "true",
              !.graduationPrice = price, !.graduationTime = t, !.status = "closed"]

\* redis.hset(`position:${mint}`, { executedDex, graduated, graduationPrice,
\* graduationTime }): the four fields, the others as they are
GraduationWrite(h, price, t) ==
    [h EXCEPT !.executedDex = "Jupiter", !.graduated = "true",
              !.graduationPrice = price, !.graduationTime = t]

\* the loop goes to the next mint of the pass, or to its sleep after the last
NextMint ==
    /\ todo' = Tail(todo)
    /\ gpc' = IF Tail(todo) = <<>> THEN "sleep" ELSE "hgetall"
    /\ position' = NoHash
    /\ gradDexPrice' = 0

\* new GraduationHandler() and the call of monitorOpenPositions
StartMonitor ==
    /\ gpc = "start"
    /\ \E sv \in GradServices : service' = sv
    /\ gpc' = "smembers"
    /\ UNCHANGED <<positions, todo, position, gradDexPrice, writes, redis, nonGradVars>>
    /\ graduation' = NoCheck

\* await redis.smembers('open_positions')
Smembers ==
    /\ gpc = "smembers"
    /\ \E order \in {sq \in UNION {[1..n -> GradMints] : n \in 0..Cardinality(GradMints)} :
                        /\ {sq[k] : k \in 1..Len(sq)} = redis.open \cap GradMints
                        /\ Len(sq) = Cardinality(redis.open \cap GradMints)} :
          /\ todo' = order
          /\ gpc' = IF order = <<>> THEN "sleep" ELSE "hgetall"
    /\ UNCHANGED <<positions, service, position, gradDexPrice, writes, redis, nonGradVars>>
    /\ graduation' = NoCheck

\* await redis.hgetall(`position:${mint}`) and the three tests that skip
Hgetall ==
    /\ gpc = "hgetall"
    /\ IF Skips(positions[Head(todo)])
       THEN NextMint
       ELSE /\ position' = positions[Head(todo)]
            /\ gpc' = "hasGraduated"
            /\ UNCHANGED <<todo, gradDexPrice>>
    /\ UNCHANGED <<positions, service, writes, redis, nonGradVars>>
    /\ graduation' = NoCheck

\* smembers or hgetall throws: the catch of the loop waits and starts a pass
MonitorThrows ==
    /\ gpc \in {"smembers", "hgetall"}
    /\ gpc' = "sleep"
    /\ todo' = <<>>
    /\ position' = NoHash
    /\ UNCHANGED <<positions, service, gradDexPrice, writes, redis, nonGradVars>>
    /\ graduation' = NoCheck

\* what hasGraduated(mint) answered
Graduated(answer) ==
    IF answer
    THEN /\ gpc' = "getDEXPrice"
         /\ UNCHANGED <<todo, position, gradDexPrice>>
    ELSE NextMint

\* await this.hasGraduated(mint): the service's own check, or the quote of
\* getPriceWithFallback, or { graduated: false } (no method, null, a throw)
HasGraduated ==
    /\ gpc = "hasGraduated"
    /\ \E own \in (IF service = "hasGraduated" THEN BOOLEAN ELSE {FALSE}),
          q \in QuotesOf(service),
          threw \in (IF service = "none" THEN {FALSE} ELSE BOOLEAN) :
          /\ graduation' = [asked |-> TRUE, service |-> service, own |-> own,
                            quote |-> q, threw |-> threw,
                            graduated |-> HasGraduatedAnswer(service, own, q, threw)]
          /\ Graduated(HasGraduatedAnswer(service, own, q, threw))
    /\ UNCHANGED <<positions, service, writes, redis, nonGradVars>>

\* await this.getDEXPrice(mint): priceData.price, or null
GetDEXPrice ==
    /\ gpc = "getDEXPrice"
    /\ IF service = "hasGraduated" THEN \E pr \in {0, 3} : gradDexPrice' = pr
       ELSE \E q \in FallbackQuotes :
               gradDexPrice' = IF q.price # 0 /\ (q.graduated \/ q.source = "jupiter_dex")
                           THEN q.price ELSE 0
    /\ gpc' = "hset"
    /\ UNCHANGED <<positions, service, todo, position, writes, redis, nonGradVars>>
    /\ graduation' = NoCheck

\* the hset of handleGraduatedPosition: the DEX price, or the entry price the
\* loop read when there is none
MarkGraduated ==
    /\ gpc = "hset"
    /\ writes[Head(todo)] < MaxWrites
    /\ positions' = [positions EXCEPT ![Head(todo)] =
            GraduationWrite(@, IF gradDexPrice = 0 THEN position.entryPrice ELSE gradDexPrice, now)]
    /\ writes' = [writes EXCEPT ![Head(todo)] = @ + 1]
    /\ NextMint
    /\ UNCHANGED <<service, redis, nonGradVars>>
    /\ graduation' = NoCheck

\* the hset throws: the catch of handleGraduatedPosition
MarkThrows ==
    /\ gpc = "hset"
    /\ NextMint
    /\ UNCHANGED <<positions, service, writes, redis, nonGradVars>>
    /\ graduation' = NoCheck

\* await new Promise(resolve => setTimeout(resolve, ...))
Sleep ==
    /\ gpc = "sleep"
    /\ gpc' = "smembers"
    /\ UNCHANGED <<positions, service, todo, position, gradDexPrice, writes, redis, nonGradVars>>
    /\ graduation' = NoCheck

\* the strategy engine opens a position: the mint joins the open set and its
\* hash is written anew
OpenPosition ==
    /\ \E mt \in GradMints, h \in OpenHashes :
          /\ mt \notin redis.open
          /\ Cardinality(redis.open) < maxPositions
          /\ redis' = [redis EXCEPT !.open = @ \cup {mt}]
          /\ positions' = [positions EXCEPT ![mt] = h]
          /\ writes' = [writes EXCEPT ![mt] = 0]
    /\ UNCHANGED <<service, gpc, todo, position, gradDexPrice, nonGradVars>>
    /\ graduation' = NoCheck

\* the strategy engine closes a position: the mint leaves the open set and
\* its hash is deleted
ClosePosition ==
    /\ \E mt \in redis.open \cap GradMints :
          /\ redis' = [redis EXCEPT !.open = @ \ {mt}]
          /\ positions' = [positions EXCEPT ![mt] = NoHash]
          /\ writes' = [writes EXCEPT ![mt] = 0]
    /\ UNCHANGED <<service, gpc, todo, position, gradDexPrice, nonGradVars>>
    /\ graduation' = NoCheck

InitGrad ==
    /\ positions = [mt \in GradMints |-> NoHash]
    /\ service = "none"
    /\ gpc = "start"
    /\ todo = <<>>
    /\ position = NoHash
    /\ gradDexPrice = 0
    /\ writes = [mt \in GradMints |-> 0]
    /\ graduation = NoCheck

NextGrad ==
    \/ StartMonitor
    \/ Smembers
    \/ Hgetall
    \/ MonitorThrows
    \/ HasGraduated
    \/ GetDEXPrice
    \/ MarkGraduated
    \/ MarkThrows
    \/ Sleep
    \/ OpenPosition
    \/ ClosePosition

\* --------------------------------------------------------- Strategy Engine
\* The loop that takes signals, calls shouldCopy and shouldExit and then the
\* executors: per mint, whether a position is open and which of its tasks run
\* (an entry or exit evaluation, a buy or sell call of an executor).
TaskKinds == {"entry", "exit", "buy", "sell"}
CallKinds == {"buy", "sell"}

\* an engine that starts work on a mint whatever runs for it
CanStartAlways(e) == TRUE

\* per-instrument exclusivity: nothing runs for the mint
CanStart(e) == e.tasks = {}

\* a signal for the mint arrives and its entry evaluation starts
EngineSignal ==
    /\ \E mt \in EntryMints :
          /\ CanStart(engine[mt])
          /\ "entry" \notin engine[mt].tasks
          /\ engine' = [engine EXCEPT ![mt].tasks = @ \cup {"entry"}]
    /\ UNCHANGED nonEngineVars

\* a monitoring tick of an open position: its exit evaluation starts
EngineTick ==
    /\ \E mt \in EntryMints :
          /\ engine[mt].hasPosition
          /\ CanStart(engine[mt])
          /\ "exit" \notin engine[mt].tasks
          /\ engine' = [engine EXCEPT ![mt].tasks = @ \cup {"exit"}]
    /\ UNCHANGED nonEngineVars

\* shouldCopy has answered: on copy = true the buy call starts
EntryDecided ==
    /\ \E mt \in EntryMints, copy \in BOOLEAN :
          /\ "entry" \in engine[mt].tasks
          /\ copy => (~engine[mt].hasPosition /\ "buy" \notin engine[mt].tasks)
          /\ engine' = [engine EXCEPT ![mt].tasks =
                            (@ \ {"entry"}) \cup (IF copy THEN {"buy"} ELSE {})]
    /\ UNCHANGED nonEngineVars

\* shouldExit has answered: on exit = true the sell call starts
ExitDecided ==
    /\ \E mt \in EntryMints, exit \in BOOLEAN :
          /\ "exit" \in engine[mt].tasks
          /\ exit => "sell" \notin engine[mt].tasks
          /\ engine' = [engine EXCEPT ![mt].tasks =
                            (@ \ {"exit"}) \cup (IF exit THEN {"sell"} ELSE {})]
    /\ UNCHANGED nonEngineVars

\* the buy call returns: a verified buy opens the position
BuyReturns ==
    /\ \E mt \in EntryMints, success \in BOOLEAN :
          /\ "buy" \in engine[mt].tasks
          /\ engine' = [engine EXCEPT ![mt].tasks = @ \ {"buy"},
                                      ![mt].hasPosition = @ \/ success]
    /\ UNCHANGED nonEngineVars

\* the sell call returns: a verified sell closes the position, a failed one
\* leaves it open for the next tick
SellReturns ==
    /\ \E mt \in EntryMints, success \in BOOLEAN :
          /\ "sell" \in engine[mt].tasks
          /\ engine' = [engine EXCEPT ![mt].tasks = @ \ {"sell"},
                                      ![mt].hasPosition = @ /\ ~success]
    /\ UNCHANGED nonEngineVars

InitEngine == engine = [mt \in EntryMints |-> [hasPosition |-> FALSE, tasks |-> {}]]

NextEngine ==
    \/ EngineSignal
    \/ EngineTick
    \/ EntryDecided
    \/ ExitDecided
    \/ BuyReturns
    \/ SellReturns

\* ------------------------------------------------ PnLCalculator.calculatePnL
\* Amounts are in 1e-7 SOL, prices in 1e-7 SOL a token, fee and slippage
\* fractions in 1/10000, percentages in 1/100 of a percent.
NoTrade == [kind |-> "none"]
NoPnl == [kind |-> "none"]

Trades ==
    [kind : {"trade"}, entryPrice : {1000}, exitPrice : {500, 1500},
     tokenAmount : {0, 200000, 1000000}, solSpent : {200000000, 1000000000},
     executor : {"pumpportal", "jupiter", "raydium"},
     slippage : {0, SlippageFloor, 100, -100},
     networkFee : {DefaultNetworkFee}, priorityFee : {0, 1000}]

\* a * b / c for a >= 0 without leaving the integer range
MulDiv(a, b, c) == (a \div c) * b + ((a % c) * b) \div c

\* Number(x.toFixed(2)) of x = n / d (d > 0): the nearest 1/100, a tie away
\* from zero; d is d100 * 100 and n is already times 100 * 100
RoundDiv(n, d) ==
    LET a == Abs(n)
        q == a \div d
        r == a % d
        up == IF 2 * r >= d THEN q + 1 ELSE q
    IN  IF n < 0 THEN -up ELSE up

\* (pnlSOL / solSpent) * 100 in 1/100 of a percent (solSpent a multiple of 10000)
PercentOf(pnlSOL, solSpent) == RoundDiv(pnlSOL, solSpent \div 10000)

\* buyFeeTotal / sellFeeTotal by executor
SellFeeTotal(executor) ==
    IF executor = "pumpportal" THEN SellFeePumpPortal
    ELSE IF executor = "jupiter" THEN SellFeeJupiter
    ELSE SellFeeGeneric

\* Number(x.toFixed(6)) of an amount x in 1e-7 SOL
ToFixed6(x) == RoundDiv(x, 10) * 10

PnlResult(trade, grossValue, sellFeeAmount, slippageAmount, totalNetworkFee, netReceived) ==
    [kind |-> "result", grossValue |-> grossValue, sellFeeAmount |-> sellFeeAmount,
     slippageAmount |-> slippageAmount, totalNetworkFee |-> totalNetworkFee,
     netReceived |-> netReceived,
     pnlSOL |-> ToFixed6(netReceived - trade.solSpent),
     pnlPercent |-> PercentOf(netReceived - trade.solSpent, trade.solSpent)]

\* a calculation that takes the network fees off before the slippage
CalculatePnLFeesFirst(trade) ==
    IF trade.entryPrice = 0 \/ trade.exitPrice = 0 \/ trade.tokenAmount = 0
       \/ trade.solSpent = 0
    THEN [kind |-> "thrown"]
    ELSE LET grossValue == trade.tokenAmount * trade.exitPrice
             sellFeeAmount == MulDiv(grossValue, SellFeeTotal(trade.executor), 10000)
             valueAfterSellFee == grossValue - sellFeeAmount
             totalNetworkFee == trade.networkFee + trade.priorityFee
             afterFees == valueAfterSellFee - totalNetworkFee
             slippageAmount ==
                 IF Abs(trade.slippage) > SlippageFloor
                 THEN MulDiv(afterFees, Abs(trade.slippage), 10000)
                 ELSE 0
         IN  PnlResult(trade, grossValue, sellFeeAmount, slippageAmount, totalNetworkFee,
                       afterFees - slippageAmount)

\* PnLCalculator.calculatePnL(trade)
CalculatePnL(trade) ==
    IF trade.entryPrice = 0 \/ trade.exitPrice = 0 \/ trade.tokenAmount = 0
       \/ trade.solSpent = 0
    THEN [kind |-> "thrown"]
    ELSE LET grossValue == trade.tokenAmount * trade.exitPrice
             sellFeeAmount == MulDiv(grossValue, SellFeeTotal(trade.executor), 10000)
             valueAfterSellFee == grossValue - sellFeeAmount
             slippageAmount ==
                 IF Abs(trade.slippage) > SlippageFloor
                 THEN MulDiv(valueAfterSellFee, Abs(trade.slippage), 10000)
                 ELSE 0
             valueAfterSlippage == valueAfterSellFee - slippageAmount
             totalNetworkFee == trade.networkFee + trade.priorityFee
         IN  PnlResult(trade, grossValue, sellFeeAmount, slippageAmount, totalNetworkFee,
                       valueAfterSlippage - totalNetworkFee)

\* the positions and options calculateUnrealizedPnL is called with: the
\* fields of a trade, exitPrice standing for currentPrice, slippage for
\* options.estimatedSlippage, solSpent for position.solAmount
Unrealized == {[t EXCEPT !.kind = "unrealized"] : t \in Trades}

\* executor === 'pumpportal' ? 0.0175 : 0.003
UnrealizedSellFeeTotal(executor) ==
    IF executor = "pumpportal" THEN SellFeePumpPortal ELSE SellFeeJupiter

\* PnLCalculator.calculateUnrealizedPnL(position, currentPrice, options)
CalculateUnrealizedPnL(u) ==
    IF u.entryPrice = 0 \/ u.solSpent = 0 \/ u.tokenAmount = 0 \/ u.exitPrice = 0
    THEN [kind |-> "thrown"]
    ELSE LET grossValue == u.tokenAmount * u.exitPrice
             sellFeeAmount == MulDiv(grossValue, UnrealizedSellFeeTotal(u.executor), 10000)
             valueAfterFee == grossValue - sellFeeAmount
             slippageAmount ==
                 IF u.slippage >= 0 THEN MulDiv(valueAfterFee, u.slippage, 10000)
                 ELSE -MulDiv(valueAfterFee, -u.slippage, 10000)
             valueAfterSlippage == valueAfterFee - slippageAmount
             totalNetworkFee == u.networkFee + u.priorityFee
             netReceived == valueAfterSlippage - totalNetworkFee
         IN  [kind |-> "unrealized", grossValue |-> grossValue,
              sellFeeAmount |-> sellFeeAmount, slippageEstimate |-> slippageAmount,
              netReceived |-> netReceived,
              pnlSOL |-> ToFixed6(netReceived - u.solSpent),
              pnlPercent |-> PercentOf(netReceived - u.solSpent, u.solSpent)]

\* one calculateUnrealizedPnL call
CalculateUnrealizedPnLCall ==
    /\ pnlIn = NoTrade
    /\ \E u \in Unrealized :
          /\ pnlIn' = u
          /\ pnlOut' = CalculateUnrealizedPnL(u)
    /\ UNCHANGED nonPnlVars

\* one calculatePnL(trade) call
CalculatePnLCall ==
    /\ pnlIn = NoTrade
    /\ \E trade \in Trades :
          /\ pnlIn' = trade
          /\ pnlOut' = CalculatePnL(trade)
    /\ UNCHANGED nonPnlVars

\* the caller has taken the result
PnlTaken ==
    /\ pnlIn # NoTrade
    /\ pnlIn' = NoTrade
    /\ pnlOut' = NoPnl
    /\ UNCHANGED nonPnlVars

InitPnl ==
    /\ pnlIn = NoTrade
    /\ pnlOut = NoPnl

NextPnl ==
    \/ CalculatePnLCall
    \/ CalculateUnrealizedPnLCall
    \/ PnlTaken

\* ------------------------------------------- the bonding-curve account read
\* A 64-bit reserve is held as m * 10^e; a price is the fraction
\* (num / den) * 10^exp in SOL a token.
Sci(m, e) == [m |-> m, e |-> e]
Reserves == {Sci(m, e) : m \in {0, 1, 3, 30}, e \in {0, 9, 10, 12}}

NoAccount == [kind |-> "none"]
\* discriminatorOk: the first 8 bytes of the data are the IDL signature of a
\* bonding-curve account
Accounts ==
    {NoAccount} \cup [kind : {"account"}, discriminatorOk : BOOLEAN,
                      virtualTokenReserves : Reserves,
                      virtualSolReserves : Reserves, complete : BOOLEAN]

NullRead == [isNull |-> TRUE, hasPrice |-> FALSE, price |-> [num |-> 0, den |-> 1, exp |-> 0],
             graduated |-> FALSE]

Priced(num, den, exp, graduated) ==
    [isNull |-> FALSE, hasPrice |-> TRUE, price |-> [num |-> num, den |-> den, exp |-> exp],
     graduated |-> graduated]

\* PumpPriceReaderRaw.getPrice: (virtualSolReserves * TOKEN_DECIMALS) /
\* (virtualTokenReserves * SOL_DECIMALS); a complete curve has price null;
\* a wrong discriminator and zero reserves throw and the catch returns null
ReaderRawGetPrice(acct) ==
    IF acct.kind = "none" THEN NullRead
    ELSE IF ~acct.discriminatorOk THEN NullRead
    ELSE IF acct.complete THEN [NullRead EXCEPT !.isNull = FALSE, !.graduated = TRUE]
    ELSE IF acct.virtualTokenReserves.m <= 0 \/ acct.virtualSolReserves.m <= 0 THEN NullRead
    ELSE Priced(acct.virtualSolReserves.m, acct.virtualTokenReserves.m,
                (acct.virtualSolReserves.e + PumpTokenDecimals)
                    - (acct.virtualTokenReserves.e + LamportsPerSolExp),
                FALSE)

\* a read that takes the token reserves for lamport-sized units
GetPumpFunPriceWideSameDecimals(acct) ==
    IF acct.kind = "none" THEN NullRead
    ELSE IF acct.virtualTokenReserves.m <= 0 \/ acct.virtualSolReserves.m <= 0 THEN NullRead
    ELSE Priced(acct.virtualSolReserves.m, acct.virtualTokenReserves.m,
                (acct.virtualSolReserves.e - LamportsPerSolExp)
                    - (acct.virtualTokenReserves.e - LamportsPerSolExp),
                acct.complete)

\* PriceService.getPumpFunPrice with the reserves at their full width:
\* (Number(virtualSolReserves) / LAMPORTS_PER_SOL) /
\* (Number(virtualTokenReserves) / 10 ** PUMP_TOKEN_DECIMALS), graduated = complete;
\* a signature mismatch is logged and the fields are read all the same
GetPumpFunPriceWide(acct) ==
    IF acct.kind = "none" THEN NullRead
    ELSE IF acct.virtualTokenReserves.m <= 0 \/ acct.virtualSolReserves.m <= 0 THEN NullRead
    ELSE Priced(acct.virtualSolReserves.m, acct.virtualTokenReserves.m,
                (acct.virtualSolReserves.e - LamportsPerSolExp)
                    - (acct.virtualTokenReserves.e - PumpTokenDecimals),
                acct.complete)

\* the first source of PriceService.getPrice: if (pump && pump.price &&
\* !pump.graduated) the quote is the curve's; else the call goes on to the
\* sources for graduated tokens
PumpQuote(pump) ==
    IF ~pump.isNull /\ pump.hasPrice /\ ~pump.graduated
    THEN [source |-> "pump.fun", price |-> pump.price, graduated |-> FALSE]
    ELSE [source |-> "other", price |-> NullRead.price, graduated |-> pump.graduated]

NoCurveOut == [kind |-> "none"]

RECURSIVE Pow10(_)
Pow10(k) == IF k <= 0 THEN 1 ELSE 10 * Pow10(k - 1)

\* the price p = (num / den) * 10^exp is the fraction n / d
RatIs(p, n, d) ==
    IF p.exp >= 0
    THEN p.num * Pow10(p.exp) * d = n * p.den
    ELSE p.num * d = n * p.den * Pow10(-p.exp)

\* virtualTokenReserves = 1_000_000_000000, virtualSolReserves =
\* 30_000_000_000 lamports, the completion flag clear
ExampleAccount ==
    [kind |-> "account", discriminatorOk |-> TRUE, virtualTokenReserves |-> Sci(1, 12),
     virtualSolReserves |-> Sci(3, 10), complete |-> FALSE]

\* the account is read by both readers and by getPrice
ReadCurve ==
    /\ curveIn = NoAccount
    /\ curveOut = NoCurveOut
    /\ \E acct \in Accounts :
          /\ curveIn' = acct
          /\ curveOut' = [kind |-> "read", raw |-> ReaderRawGetPrice(acct),
                          pump |-> GetPumpFunPriceWide(acct),
                          quote |-> PumpQuote(GetPumpFunPriceWide(acct))]
    /\ UNCHANGED nonCurveVars

\* the answers are taken
CurveTaken ==
    /\ curveOut # NoCurveOut
    /\ curveIn' = NoAccount
    /\ curveOut' = NoCurveOut
    /\ UNCHANGED nonCurveVars

InitCurve ==
    /\ curveIn = NoAccount
    /\ curveOut = NoCurveOut

NextCurve ==
    \/ ReadCurve
    \/ CurveTaken

\* ------------------------------------- entry evaluations running together
\* One shouldCopy call a mint (the engine's per-instrument exclusivity), the
\* calls of different mints suspended at their store reads in any order.
\* The wallet-count, rebuy and cooldown tests are taken as passed.
NoTask == [pc |-> "idle", copy |-> FALSE]

\* a signal for the mint arrives: shouldCopy runs up to its sismember
CopyStart(mt) ==
    /\ copyTasks[mt].pc = "idle"
    /\ copyTasks' = [copyTasks EXCEPT ![mt].pc = "member"]
    /\ UNCHANGED <<openSet, openedTwice>>

\* await redis.sismember('open_positions', mint)
CopyMember(mt) ==
    /\ copyTasks[mt].pc = "member"
    /\ copyTasks' = [copyTasks EXCEPT ![mt].pc = IF mt \in openSet THEN "done" ELSE "card"]
    /\ UNCHANGED <<openSet, openedTwice>>

\* await redis.scard('open_positions'), the limit test and the approval
CopyCard(mt) ==
    /\ copyTasks[mt].pc = "card"
    /\ copyTasks' = [copyTasks EXCEPT
                        ![mt] = [pc |-> "done",
                                 copy |-> ~MaxPositionsReached(Cardinality(openSet))]]
    /\ UNCHANGED <<openSet, openedTwice>>

\* the engine takes the answer: an approved signal is bought and its
\* position recorded in the store
CopyRecorded(mt) ==
    /\ copyTasks[mt].pc = "done"
    /\ copyTasks' = [copyTasks EXCEPT ![mt] = NoTask]
    /\ openSet' = IF copyTasks[mt].copy THEN openSet \cup {mt} ELSE openSet
    /\ openedTwice' = (openedTwice \/ (copyTasks[mt].copy /\ mt \in openSet))

\* the position of a mint with no evaluation running is sold and removed
CopyClosed(mt) ==
    /\ copyTasks[mt].pc = "idle"
    /\ mt \in openSet
    /\ openSet' = openSet \ {mt}
    /\ UNCHANGED <<copyTasks, openedTwice>>

CopyStarts == \E mt \in EntryMints : CopyStart(mt) /\ UNCHANGED nonCopyVars
CopyMembers == \E mt \in EntryMints : CopyMember(mt) /\ UNCHANGED nonCopyVars
CopyCards == \E mt \in EntryMints : CopyCard(mt) /\ UNCHANGED nonCopyVars
CopyRecords == \E mt \in EntryMints : CopyRecorded(mt) /\ UNCHANGED nonCopyVars
CopyCloses == \E mt \in EntryMints : CopyClosed(mt) /\ UNCHANGED nonCopyVars

InitCopies ==
    /\ copyTasks = [mt \in EntryMints |-> NoTask]
    /\ openSet = {}
    /\ openedTwice = FALSE

NextCopies ==
    \/ CopyStarts
    \/ CopyMembers
    \/ CopyCards
    \/ CopyRecords
    \/ CopyCloses

Init ==
    /\ InitExec /\ InitPrice /\ InitExit /\ InitEntry /\ InitGrad
    /\ InitEngine /\ InitPnl /\ InitCurve /\ InitCopies

NextPrice ==
    \/ GetPriceCall
    \/ Tick
    \/ Idle

\* the executors alone
SpecExec == Init /\ [][NextExec]_vars

\* the executors with every getSignatureStatus call answered and every 1 s
\* timer fired: a waitForConfirmation that can take a step takes it
SpecExecFair == Init /\ [][NextExec]_vars /\ WF_vars(Poll)

\* the price service has no paper mode of its own
InitLive ==
    /\ Init
    /\ ~dryRun

\* the price service alone
SpecPrice == InitLive /\ [][NextPrice]_vars

\* the exit evaluation alone
SpecExit == InitLive /\ [][NextExit]_vars

\* the entry evaluation and the store it reads
SpecEntry == Init /\ [][NextEntry]_vars

\* the graduation monitor and the positions it reads
SpecGrad == InitLive /\ [][NextGrad]_vars

\* a step of monitorOpenPositions: the loop body, its catch and its timers
MonitorStep ==
    \/ Smembers
    \/ Hgetall
    \/ MonitorThrows
    \/ HasGraduated
    \/ GetDEXPrice
    \/ MarkGraduated
    \/ MarkThrows
    \/ Sleep

\* the graduation monitor with every store and service call answered and
\* every timer fired: a monitor that can take a step takes one
SpecGradFair == InitLive /\ [][NextGrad]_vars /\ WF_vars(MonitorStep)

\* the strategy engine's scheduling alone
SpecEngine == InitLive /\ [][NextEngine]_vars

\* calculatePnL alone
SpecPnl == InitLive /\ [][NextPnl]_vars

\* the bonding-curve read alone
SpecCurve == InitLive /\ [][NextCurve]_vars

\* entry evaluations of several mints and the recording of their approvals
SpecCopies == InitLive /\ [][NextCopies]_vars

\* ---------------------------------------------------------------- claims
LiveLocal(action) ==
    /\ pc = "done"
    /\ ~dryRun
    /\ call.api = "local"
    /\ call.action = action

\* C1: every ExecutionResult with success = true, from any executor and in
\* any mode, carries a delta strictly greater than zero (buy: tokensReceived
\* > 0, sell: solReceived > 0).
C1_SuccessHasMovement ==
    (pc = "done" /\ result.success) =>
        /\ (result.action = "buy" => result.tokensReceived > 0)
        /\ (result.action = "sell" => result.solReceived > 0)

\* C2: a live buy through the local API returns success = true exactly when
\* the fetched transaction record exists, carries no on-chain error and shows
\* a non-zero token delta, which it reports as tokensReceived > 0; in every
\* other case it returns success = false with an error description.
C2_LocalBuyVerified ==
    LiveLocal("buy") =>
        /\ result.success <=>
              (txResp.kind = "ok" /\ TokensDelta(txResp.pre, txResp.post) # 0)
        /\ (result.success =>
              /\ result.tokensReceived > 0
              /\ result.tokensReceived = Abs(TokensDelta(txResp.pre, txResp.post)))
        /\ (~result.success => result.error # "")

C2_Witness ==
    /\ LiveLocal("buy")
    /\ result.success
    /\ txResp.kind = "ok"

\* C3: a live sell through the local API returns success = true only if the
\* fetched record exists, carries no on-chain error, shows a decrease of the
\* token balance (tokensSold > 0) and an increase of the signer's SOL balance
\* (solReceived > 0); zero tokens sold or zero SOL received is success = false.
C3_LocalSellVerified ==
    LiveLocal("sell") =>
        /\ result.success <=>
              /\ txResp.kind = "ok"
              /\ TokensDelta(txResp.pre, txResp.post) < 0
              /\ txResp.walletFound
              /\ txResp.postLamports > txResp.preLamports
        /\ (result.success =>
              /\ result.tokensSold.n > 0
              /\ result.solReceived > 0)
        /\ (~result.success => result.error # "")

\* a sell whose record shows tokens leaving and no SOL arriving is rejected
C3_Witness ==
    /\ LiveLocal("sell")
    /\ txResp.kind = "ok"
    /\ TokensDelta(txResp.pre, txResp.post) < 0
    /\ SolDelta(txResp) = 0
    /\ ~result.success

\* C4: when confirmation polling exhausts its 30 attempts without a
\* confirmed or finalized status, the enclosing buyToken / sellToken call of
\* the local API does not return success = true.
C4_TimeoutIsNotSuccess ==
    (LiveLocal(call.action) /\ confirmed = "false") => ~result.success

\* C5: once a signature status carrying an on-chain error was observed,
\* waitForConfirmation of the local API issues no further status query.
C5_NoQueryAfterStatusErr ==
    call.api = "local" => ~queriedAfterErr

Returned == last.mint # "none"

\* C7: after three consecutive all-sources-miss resolutions of one instrument
\* within 60 s, with no cached quote, a fourth getPrice call without forceFresh
\* made while the 60 s window since the third miss is still open contacts no
\* source at all and returns a quote with price = null and source "skipped".
C7_BackoffSkipsFourthCall ==
    LET h == last.missesBefore IN
    (/\ Returned
     /\ ~last.forceFresh
     /\ Len(h) = maxFailedAttempts
     /\ h[maxFailedAttempts] - h[1] <= failedAttemptsResetMs
     /\ last.at - h[maxFailedAttempts] <= failedAttemptsResetMs
     /\ last.cacheBefore = NoQuote)
    => /\ last.net = {}
       /\ last.quote.price = 0
       /\ last.quote.source = "skipped"

C7_Witness ==
    /\ Returned
    /\ ~last.forceFresh
    /\ Len(last.missesBefore) = maxFailedAttempts
    /\ last.cacheBefore = NoQuote
    /\ last.path = "backoff"
    /\ last.quote.source = "skipped"

\* C8 as stated: a getPrice call without forceFresh made less than 5 s after
\* the call that found the cached price returned gives back that very quote
\* (same source, price and timestamp) and contacts no source.
C8_SecondCallWithinFiveSeconds ==
    (/\ Returned
     /\ ~last.forceFresh
     /\ last.cacheBefore # NoQuote
     /\ last.at - last.cacheDoneBefore < cacheMs)
    => /\ last.quote = last.cacheBefore
       /\ last.net = {}

\* C8, amended: a getPrice call without forceFresh made less than 5 s after
\* the instant stamped on the cached quote (the start of the call that found
\* it) gives back that very quote and contacts no source.
C8_SecondCallWithinCacheAge ==
    (/\ Returned
     /\ ~last.forceFresh
     /\ last.cacheBefore # NoQuote
     /\ last.at - last.cacheBefore.ts < cacheMs)
    => /\ last.quote = last.cacheBefore
       /\ last.net = {}

C8_Witness ==
    /\ Returned
    /\ ~last.forceFresh
    /\ last.path = "cache"
    /\ last.at > last.cacheBefore.ts
    /\ last.quote = last.cacheBefore
    /\ last.quote.price > 0

\* the price of the returned quote was read from a source during the call
ReadDuringCall ==
    \/ last.path \in {"pump", "dexscreener"}
    \/ last.path = "jupiter" /\ last.quote.source = "jupiter"

\* the price of the returned quote was cached less than 5 s before the call
CachedRecently ==
    \/ /\ last.path \in {"cache", "backoff"}
       /\ last.at - last.cacheBefore.ts < cacheMs
    \/ /\ last.path = "jupiter"
       /\ last.quote.source = "cache-fallback"
       /\ last.at - last.jupBefore.timestamp < cacheMaxAge

\* C9: every priced quote getPrice returns without the stale flag carries a
\* price read from a source during that call or cached less than 5 s earlier.
C9_UnflaggedQuoteIsFresh ==
    (Returned /\ last.quote.price > 0 /\ ~last.quote.stale)
    => (ReadDuringCall \/ CachedRecently)

\* C10: when the bonding-curve account read by a getPrice call has its
\* completion flag set, the quote returned says graduated = true and its
\* source is not "pump.fun".
C10_CompleteCurveIsGraduated ==
    (Returned /\ last.curveComplete)
    => /\ last.quote.graduated
       /\ last.quote.source # "pump.fun"

\* the rank the strategy gives a trigger
Rank(reason) ==
    CASE reason = "take_profit" -> 1
      [] reason = "trailing_stop" -> 2
      [] reason = "stop_loss" -> 3
      [] reason = "traders_sold" -> 4
      [] reason = "max_hold_time" -> 5

\* the triggers whose condition holds for the evaluation just made
Matching ==
    {r \in {"take_profit", "trailing_stop", "stop_loss", "traders_sold", "max_hold_time"} :
        CASE r = "take_profit" -> TakeProfitHit(cfg, exitIn)
          [] r = "trailing_stop" -> TrailingStopHit(cfg, exitIn)
          [] r = "stop_loss" -> StopLossHit(cfg, exitIn)
          [] r = "traders_sold" -> TradersSoldHit(cfg, exitIn)
          [] r = "max_hold_time" -> MaxHoldHit(cfg, exitIn)}

\* C11: shouldExit returns the matching trigger of lowest rank, tagged with
\* that rank as its priority (take-profit 1, trailing-stop 2, stop-loss 3,
\* traders-sold 4, max-hold 5), and holds when no trigger matches.
C11_LowestRankWins ==
    exitIn.kind = "position" =>
        IF Matching = {}
        THEN ~exitOut.exit
        ELSE /\ exitOut.exit
             /\ exitOut.reason \in Matching
             /\ \A r \in Matching : Rank(exitOut.reason) <= Rank(r)
             /\ exitOut.priority = Rank(exitOut.reason)

\* profit target and stop loss both met: the profit target is returned
C11_Witness ==
    /\ exitIn.kind = "position"
    /\ {"take_profit", "stop_loss"} \subseteq Matching
    /\ exitOut.reason = "take_profit"
    /\ exitOut.priority = 1

\* the store held an open position for the signal's mint that came from the
\* signal's wallet
OpenFromWallet ==
    /\ copySignal.mint \in entryIn.store.open
    /\ entryIn.store.walletSource = copySignal.walletAddress

\* a history list of today or of one of the HistoryDays days before holds a
\* record of the same mint and wallet closed less than rebuyWindow seconds ago
ClosedInWindow ==
    \E day \in 0..HistoryDays :
        \E k \in 1..Len(TradesOf(entryIn.trades, day)) :
            LET rec == TradesOf(entryIn.trades, day)[k]
            IN  /\ rec.kind = "trade"
                /\ rec.mint = copySignal.mint
                /\ rec.walletSource = copySignal.walletAddress
                /\ rec.timeSinceClosed < cfg.rebuyWindow * 1000

\* C12 as stated: isRebuySignal returns true exactly when the mint has an open
\* position from the wallet or a close record of the pair lies inside the
\* rebuy window.
C12_BlocksExactlyWhenRecent ==
    entryIn.kind = "rebuy" => (entryIn.isRebuy <=> (OpenFromWallet \/ ClosedInWindow))

\* C12: isRebuySignal returns true only when the mint has an open position
\* from the wallet or a close record of the pair lies inside the rebuy window,
\* and it does return true then whenever none of its store reads throws.
C12_BlocksWhenRecentAndStoreAnswers ==
    entryIn.kind = "rebuy" =>
        /\ entryIn.isRebuy => (OpenFromWallet \/ ClosedInWindow)
        /\ ((OpenFromWallet \/ ClosedInWindow) /\ entryIn.fail = NoFail) => entryIn.isRebuy

\* a record closed 30 s ago, filed under the day before, blocks the signal
C12_Witness ==
    /\ entryIn.kind = "rebuy"
    /\ entryIn.trades.day = 1
    /\ entryIn.trades.list[1].kind = "trade"
    /\ entryIn.trades.list[1].timeSinceClosed = 30000
    /\ ClosedInWindow
    /\ ~OpenFromWallet
    /\ entryIn.isRebuy
    /\ entryOut = Reject("rebuy_blocked")

\* C13: shouldCopy approves no signal whose cooldown key existed, whose mint
\* was in the open set, or whose open-position count had reached
\* maxPositions when the check read the store.
C13_NoApprovalPastAnEntryBar ==
    entryOut.copy =>
        /\ ~seen.cooldown
        /\ ~seen.hasPosition
        /\ seen.openPositions < maxPositions

\* the open set is full at the last check and the signal is turned down
C13_Witness ==
    /\ entryPc = "done"
    /\ seen.openPositions = maxPositions
    /\ ~seen.cooldown
    /\ ~seen.hasPosition
    /\ entryOut = Reject("max_positions")

\* C14: a signal with fewer upvotes than minWalletsToBuy is rejected with
\* low_upvotes in live mode, and in dry-run mode is never rejected for that.
C14_LowUpvotesRejectedLiveOnly ==
    (entryPc # "idle" /\ copySignal.upvotes < cfg.minWalletsToBuy) =>
        IF dryRun
        THEN entryOut.reason # "low_upvotes"
        ELSE entryPc = "done" /\ entryOut = Reject("low_upvotes")

\* in dry-run a signal with too few upvotes goes through to approval
C14_Witness ==
    /\ dryRun
    /\ copySignal.upvotes < cfg.minWalletsToBuy
    /\ entryPc = "done"
    /\ entryOut.copy
    /\ entryOut.mode = "paper"

HandlesGraduation ==
    \/ GetDEXPrice
    \/ MarkGraduated
    \/ MarkThrows

\* C16: a step of handleGraduatedPosition leaves the open set as it is,
\* leaves status, entry price, quantity and currency spent of every position
\* as they are, and starts no executor call.
C16_GraduationOnlyMarks ==
    [][HandlesGraduation =>
          /\ redis'.open = redis.open
          /\ \A mt \in GradMints :
                /\ positions'[mt].status = positions[mt].status
                /\ positions'[mt].entryPrice = positions[mt].entryPrice
                /\ positions'[mt].tokensAmount = positions[mt].tokensAmount
                /\ positions'[mt].solAmount = positions[mt].solAmount
          /\ UNCHANGED execVars]_vars

\* a position marked graduated is still open, with the amounts it had
C16_Witness ==
    /\ writes["mintA"] = 1
    /\ "mintA" \in redis.open
    /\ positions["mintA"].graduated = "true"
    /\ positions["mintA"].status = "open"
    /\ positions["mintA"].entryPrice = 2
    /\ pc = "idle"

\* C18: in dry-run mode buyToken and sellToken of the PumpPortal executors
\* make no network call and return a simulated result at the notional price
\* of LamportsPerToken lamports a token: a buy gives solAmount / price tokens,
\* a sell gives quantity * price lamports (for "100%", the price of whatever
\* positive quantity is held).
C18_DryRunIsLocalAndNotional ==
    (dryRun /\ pc = "done" /\ call.api \in {"local", "lightning"}) =>
        /\ net = NoNet
        /\ result.success
        /\ result.simulated
        /\ call.action = "buy" =>
              result.tokensReceived * LamportsPerToken = call.amount.n
        /\ call.action = "sell" =>
              IF call.amount.pct
              THEN result.solReceived > 0
              ELSE result.solReceived = call.amount.n * LamportsPerToken

\* C17: for one instrument no entry or exit evaluation and no executor call
\* starts while a buy or sell call for that instrument is outstanding.
C17_OneAttemptPerInstrument ==
    [][\A mt \in EntryMints :
          (engine'[mt].tasks \ engine[mt].tasks # {}) =>
              engine[mt].tasks \cap CallKinds = {}]_vars

\* a sell is outstanding for one mint, alone, while another mint is evaluated
C17_Witness ==
    /\ engine["mintA"].hasPosition
    /\ engine["mintA"].tasks = {"sell"}
    /\ engine["mintB"].tasks = {"entry"}

\* C19 as stated: the sell fee is taken off the gross proceeds, then the
\* slippage off what remains, then the network and priority fees, and
\* pnlPercent is (net - solSpent) / solSpent * 100 rounded to 2 decimals.
C19_FeeSlippageFixedFees ==
    pnlOut.kind = "result" =>
        LET gross == pnlIn.tokenAmount * pnlIn.exitPrice
            fee == MulDiv(gross, SellFeeTotal(pnlIn.executor), 10000)
            slip == MulDiv(gross - fee, Abs(pnlIn.slippage), 10000)
            received == gross - fee - slip - (pnlIn.networkFee + pnlIn.priorityFee)
        IN  /\ pnlOut.sellFeeAmount = fee
            /\ pnlOut.slippageAmount = slip
            /\ pnlOut.netReceived = received
            /\ pnlOut.pnlPercent = PercentOf(received - pnlIn.solSpent, pnlIn.solSpent)

\* C19: the sell fee is taken off the gross proceeds, then the slippage, when
\* its size is above SlippageFloor, off what remains, then the network and
\* priority fees; pnlPercent is (net - solSpent) / solSpent * 100 rounded to
\* 2 decimals, 47.37 for exitPrice 0.00015, 1_000_000 tokens, 100 SOL spent,
\* the pumpportal fee, no slippage and no priority fee.
C19_FeeSlippageAboveFloorFixedFees ==
    pnlOut.kind = "result" =>
        LET gross == pnlIn.tokenAmount * pnlIn.exitPrice
            fee == MulDiv(gross, SellFeeTotal(pnlIn.executor), 10000)
            slip == IF Abs(pnlIn.slippage) > SlippageFloor
                    THEN MulDiv(gross - fee, Abs(pnlIn.slippage), 10000)
                    ELSE 0
            received == gross - fee - slip - (pnlIn.networkFee + pnlIn.priorityFee)
        IN  /\ pnlOut.sellFeeAmount = fee
            /\ pnlOut.slippageAmount = slip
            /\ pnlOut.netReceived = received
            /\ pnlOut.pnlPercent = PercentOf(received - pnlIn.solSpent, pnlIn.solSpent)
            /\ (/\ pnlIn.exitPrice = 1500
                /\ pnlIn.tokenAmount = 1000000
                /\ pnlIn.solSpent = 1000000000
                /\ pnlIn.executor = "pumpportal"
                /\ pnlIn.slippage = 0
                /\ pnlIn.priorityFee = 0) => pnlOut.pnlPercent = 4737

\* the example trade has been calculated
C19_Witness ==
    /\ pnlOut.kind = "result"
    /\ pnlIn.exitPrice = 1500
    /\ pnlIn.tokenAmount = 1000000
    /\ pnlIn.solSpent = 1000000000
    /\ pnlIn.executor = "pumpportal"
    /\ pnlIn.slippage = 0
    /\ pnlIn.priorityFee = 0
    /\ pnlOut.netReceived = 1473749950
    /\ pnlOut.pnlPercent = 4737

\* C20: for the example account both readers compute the price 30 / 1_000_000
\* SOL a token, and getPrice returns it with source "pump.fun" and
\* graduated = false.
C20_ExampleCurvePrice ==
    (curveOut # NoCurveOut /\ curveIn = ExampleAccount) =>
        /\ curveOut.raw.hasPrice
        /\ RatIs(curveOut.raw.price, 30, 1000000)
        /\ curveOut.pump.hasPrice
        /\ RatIs(curveOut.pump.price, 30, 1000000)
        /\ curveOut.quote.source = "pump.fun"
        /\ curveOut.quote.price = curveOut.pump.price
        /\ ~curveOut.quote.graduated

\* the example account has been read and priced by the curve
C20_Witness ==
    /\ curveIn = ExampleAccount
    /\ curveOut # NoCurveOut
    /\ curveOut.quote.source = "pump.fun"
    /\ curveOut.pump.price.exp = -5

\* the source names of the general-exchange aggregator: the one hasGraduated
\* tests for and the one PriceService.getPrice writes
AggregatorSources == {"jupiter_dex", "jupiter"}

\* C21: hasGraduated(mint) answers with the price service's own graduation
\* check when the service has one; otherwise it answers graduated = true
\* exactly when the latest quote for the mint has its graduated flag set or
\* comes from the exchange aggregator, and graduated = false when there is no
\* quote or an error occurred.
C21_HasGraduatedFollowsQuote ==
    graduation.asked =>
        IF graduation.threw \/ (graduation.service # "hasGraduated" /\ graduation.quote = NullQuote)
        THEN ~graduation.graduated
        ELSE IF graduation.service = "hasGraduated"
        THEN graduation.graduated = graduation.own
        ELSE graduation.graduated =
                (graduation.quote.graduated \/ graduation.quote.source \in AggregatorSources)

\* C22: for the same position, venue tag, price, slippage s >= 0 and network
\* and priority fees, calculateUnrealizedPnL returns the pnlSOL and the
\* pnlPercent that calculatePnL returns with exitPrice the current price and
\* slippage s.
C22_UnrealizedMirrorsRealized ==
    (pnlOut.kind = "unrealized" /\ pnlIn.slippage >= 0) =>
        LET realized == CalculatePnL([pnlIn EXCEPT !.kind = "trade"])
        IN  /\ realized.kind = "result"
            /\ pnlOut.pnlSOL = realized.pnlSOL
            /\ pnlOut.pnlPercent = realized.pnlPercent

\* C23: a signal that no test rejects is approved with confidence 30 for one
\* corroborating wallet, 70 for two, 95 for three or more and 50 for any
\* other count.
C23_ConfidenceByWalletCount ==
    (entryPc = "done" /\ entryOut.copy) =>
        /\ copySignal.upvotes = 1 => entryOut.confidence = 30
        /\ copySignal.upvotes = 2 => entryOut.confidence = 70
        /\ copySignal.upvotes >= 3 => entryOut.confidence = 95
        /\ copySignal.upvotes < 1 => entryOut.confidence = 50

\* a live signal with exactly three wallets has been approved
C23_Witness ==
    /\ entryPc = "done"
    /\ entryOut.copy
    /\ ~dryRun
    /\ copySignal.upvotes = 3
    /\ entryOut.confidence = 95

\* C24: a quote getPrice returns with price null has source "none" or
\* "skipped" and an error text, and the price cache never holds a quote whose
\* price is null.
C24_NullPriceIsExplainedAndNeverCached ==
    /\ (last.mint # "none" /\ last.quote.price = 0) =>
            /\ last.quote.source \in {"none", "skipped"}
            /\ last.quote.error # ""
    /\ \A m \in PriceMints : priceCache[m] # NoQuote => priceCache[m].price > 0

\* all sources missed with nothing cached: the call returned the quote with
\* no price and stored nothing
C24_Witness ==
    /\ last.mint # "none"
    /\ last.path = "miss"
    /\ last.quote.price = 0
    /\ last.quote.source = "none"
    /\ priceCache[last.mint] = NoQuote

\* C25: waitForConfirmation issues at most MaxPollAttempts status queries,
\* one after each 1 s sleep, and always comes to its return: with true after
\* a confirmed or finalized status, with false after the last attempt, also
\* when every query throws or no status is ever confirmed.
C25_WaitForConfirmationTerminates ==
    /\ [](pc \in {"poll", "waited"} => StatusQueries <= MaxPollAttempts)
    /\ [](pc = "waited" =>
            \/ confirmed = "true" /\ i < MaxPollAttempts
            \/ confirmed = "false" /\ i = MaxPollAttempts)
    /\ (pc = "poll" ~> pc = "waited")

\* the loop has made all its attempts and returned false
C25_Witness ==
    /\ pc = "waited"
    /\ confirmed = "false"
    /\ i = MaxPollAttempts
    /\ StatusQueries = MaxPollAttempts

\* C26: one buyToken or sellToken call asks the construction endpoint for at
\* most one transaction and sends at most one to the network; a failed
\* verification ends the call with success = false, after that one request,
\* that one submission and one read of the transaction record.
C26_OneRequestOneSubmission ==
    call.api \in {"local", "lightning"} =>
        /\ net.request <= 1
        /\ net.send <= 1
        /\ net.fetch <= 1
        /\ failedStep = "verify" =>
              /\ pc = "done"
              /\ ~result.success
              /\ result.error # ""
              /\ net.fetch = 1

\* a local call whose transaction was requested and sent once has failed its
\* verification
C26_Witness ==
    /\ call.api = "local"
    /\ pc = "done"
    /\ failedStep = "verify"
    /\ ~result.success
    /\ net.request = 1
    /\ net.send = 1
    /\ net.fetch = 1

\* the change of the signer's own token account between the two snapshots
SignerTokenDelta(tx) == PreAmount(tx.post, "wallet") - PreAmount(tx.pre, "wallet")

\* C27: the token delta parseTx verifies a trade with is the change of the
\* signer's own token balance in the expected direction: what other accounts
\* of the transaction gained or lost does not enter it, and a buy in which
\* the signer's token balance did not grow is never reported with
\* tokensReceived > 0.
C27_TokenDeltaIsTheSigners ==
    (pc = "done" /\ call.api = "local" /\ txResp.kind = "ok") =>
        LET parsed == ParseTx(txResp)
            own == SignerTokenDelta(txResp)
        IN  /\ (call.action = "buy" /\ ~parsed.failed) =>
                    parsed.tokensReceived = (IF own > 0 THEN own ELSE 0)
            /\ (call.action = "sell" /\ ~parsed.failed) =>
                    parsed.tokensSold = (IF own < 0 THEN -own ELSE 0)
            /\ (call.action = "buy" /\ result.success) =>
                    (own > 0 /\ result.tokensReceived = own)

\* C28: getPrice asks its sources in the order bonding curve, Jupiter,
\* DexScreener and stops at the first that gives a price: Jupiter is asked
\* only after a curve read that gave no price to go by, DexScreener only
\* after Jupiter missed as well.
C28_SourcesInPriorityOrder ==
    last.mint # "none" =>
        LET jupMissed == last.out = 0 /\ last.jupBefore.price = 0
        IN  /\ "jupiter" \in last.net => ("rpc" \in last.net /\ ~PumpAnswers(last.curve))
            /\ "dexscreener" \in last.net => ("jupiter" \in last.net /\ jupMissed)
            /\ ("rpc" \in last.net /\ PumpAnswers(last.curve)) =>
                    (last.net = {"rpc"} /\ last.quote.source = "pump.fun")
            /\ ("jupiter" \in last.net /\ ~jupMissed) =>
                    (last.net = {"rpc", "jupiter"} /\ last.quote.graduated)

\* the curve gave no price, Jupiter missed and DexScreener answered
C28_Witness ==
    /\ last.mint # "none"
    /\ last.net = {"rpc", "jupiter", "dexscreener"}
    /\ ~PumpAnswers(last.curve)
    /\ last.out = 0
    /\ last.quote.source = "dexscreener"

\* the call found a price at one of its sources
FoundPrice == last.path \in {"pump", "jupiter", "dexscreener"}

\* C29 as stated: a call that finds a price deletes the mint's failure entry
\* and puts the new quote in the cache; a call in which every source misses
\* adds exactly one to the failure count the mint had, stamps the time and
\* leaves the cache entry as it was.
C29_SuccessClearsMissCountsOne ==
    last.mint # "none" =>
        /\ FoundPrice =>
              /\ failedAttempts[last.mint] = NoFailed
              /\ priceCache[last.mint] = last.quote
        /\ last.path = "miss" =>
              /\ failedAttempts[last.mint].count = last.failedBefore.count + 1
              /\ failedAttempts[last.mint].lastAttempt = now
              /\ priceCache[last.mint] = last.cacheBefore

\* C29: a call that finds a price deletes the mint's failure entry and puts
\* the new quote in the cache; a call in which every source misses adds
\* exactly one to the failure count left by the expiry test at its head (an
\* entry older than failedAttemptsResetMs is deleted there when the call is
\* not forceFresh, so the count starts again at 1), stamps the time and
\* leaves the cache entry as it was.
C29_SuccessClearsMissCountsOneAfterExpiry ==
    last.mint # "none" =>
        LET expired == Backoff(last.failedBefore, last.forceFresh, last.at) = "reset"
            before == IF expired THEN 0 ELSE last.failedBefore.count
        IN  /\ FoundPrice =>
                  /\ failedAttempts[last.mint] = NoFailed
                  /\ priceCache[last.mint] = last.quote
            /\ last.path = "miss" =>
                  /\ failedAttempts[last.mint].count = before + 1
                  /\ failedAttempts[last.mint].lastAttempt = now
                  /\ priceCache[last.mint] = last.cacheBefore

\* every source missed in a call that first dropped an expired entry: the
\* count is 1 again and the cached quote is still there
C29_Witness ==
    /\ last.mint # "none"
    /\ last.path = "miss"
    /\ Backoff(last.failedBefore, last.forceFresh, last.at) = "reset"
    /\ last.failedBefore.count >= 1
    /\ failedAttempts[last.mint].count = 1
    /\ last.cacheBefore # NoQuote
    /\ priceCache[last.mint] = last.cacheBefore

\* the call was made without forceFresh more than failedAttemptsResetMs
\* after the last failure recorded for its mint
MadeAfterTheWindow ==
    /\ last.mint # "none"
    /\ ~last.forceFresh
    /\ last.failedBefore.count > 0
    /\ last.at - last.failedBefore.lastAttempt > failedAttemptsResetMs

\* C30: a getPrice call without forceFresh made more than 60 s after the
\* last recorded failure of the mint drops the failure entry and asks the
\* sources again, and a call the backoff suppressed leaves the entry and its
\* stamp as they were.
C30_BackoffEndsAfterTheWindow ==
    /\ MadeAfterTheWindow =>
          /\ last.path # "backoff"
          /\ "rpc" \in last.net
          /\ \/ failedAttempts[last.mint] = NoFailed
             \/ /\ last.path = "miss"
                /\ failedAttempts[last.mint] = [count |-> 1, lastAttempt |-> now]
    /\ (last.mint # "none" /\ last.path = "backoff") =>
          /\ last.net = {}
          /\ failedAttempts[last.mint] = last.failedBefore

\* a mint that had reached the limit of failures is asked for again after
\* the window and its sources are queried
C30_Witness ==
    /\ MadeAfterTheWindow
    /\ last.failedBefore.count >= maxFailedAttempts
    /\ "rpc" \in last.net

\* C31: shouldExit answers trailing_stop only with the trailing stop enabled
\* and the recorded maxPrice strictly above the entry price, and then exactly
\* when the profit target did not fire and
\* currentPrice <= maxPrice * (1 - trailingStopPercent / 100).
C31_TrailingStopArmedByProfit ==
    exitIn.kind = "position" =>
        (exitOut.reason = "trailing_stop" <=>
            /\ cfg.trailingStopEnabled
            /\ exitIn.maxPrice > exitIn.entryPrice
            /\ ~(cfg.takeProfitEnabled
                  /\ (exitIn.currentPrice - exitIn.entryPrice) * 100
                        >= cfg.takeProfitPercent * exitIn.entryPrice)
            /\ exitIn.currentPrice * 100
                    <= exitIn.maxPrice * (100 - cfg.trailingStopPercent))

\* with the profit target switched on and not met, a position that had been
\* up has fallen below the trailing price and is not below its entry
C31_Witness ==
    /\ exitIn.kind = "position"
    /\ cfg.takeProfitEnabled
    /\ exitOut.reason = "trailing_stop"
    /\ exitOut.priority = 2
    /\ exitIn.maxPrice > exitIn.entryPrice
    /\ exitIn.currentPrice >= exitIn.entryPrice

C33_AggregatorPriceInNativeUnit ==
    /\ last.path = "pump" => last.quote.price * last.curve.vTok = last.curve.vSol
    /\ (last.path = "jupiter" /\ last.quote.source = "jupiter") =>
           last.quote.price = last.out

\* C34: the number of open positions never exceeds MAX_POSITIONS and no
\* instrument is opened twice, also when entry evaluations interleave so
\* that each makes its open-position and count checks before the other's
\* approved position is recorded.
C34_OpenPositionsWithinLimit ==
    /\ Cardinality(openSet) <= maxPositions
    /\ ~openedTwice

C36_FailedReadNeverApproves ==
    (entryPc = "done" /\ (seen.rebuyFailed \/ seen.readFailed)) => ~entryOut.copy

\* C36 as the code has it: a failure of one of the reads shouldCopy makes
\* itself (cooldown key, open-position membership, open-position count) ends
\* in copy = false with reason "error"; a read failing inside the rebuy
\* check is swallowed there.
C36_FailedOwnReadNeverApproves ==
    (entryPc = "done" /\ seen.readFailed) =>
        /\ ~entryOut.copy
        /\ entryOut.reason = "error"

C36_Witness ==
    /\ entryPc = "done"
    /\ seen.readFailed
    /\ seen.rebuyFailed
    /\ ~seen.cooldown
    /\ entryOut.reason = "error"

\* C37: shouldExit never throws: any error during the evaluation, a store
\* failure while counting sellers included, yields a decision with
\* exit = false.  (The sellers are counted only when none of the first three
\* tests has answered.)
C37_ErrorNeverExits ==
    /\ exitIn.kind = "noposition" => ~exitOut.exit
    /\ (exitIn.kind = "position" /\ exitIn.sellers < 0
          /\ exitOut.priority \notin {1, 2, 3}) => ~exitOut.exit

\* C37 as the code has it: an error in the body of shouldExit yields
\* exit = false; a store failure while counting sellers is answered by
\* countSellers as no seller, so it never gives the traders_sold exit, and
\* the evaluation goes on to the hold-time test, the only one that can
\* still close the position.
C37_SellerReadErrorCountsAsNoSeller ==
    /\ exitIn.kind = "noposition" => ~exitOut.exit
    /\ (exitIn.kind = "position" /\ exitIn.sellers < 0
          /\ exitOut.priority \notin {1, 2, 3}) =>
            /\ exitOut.reason # "traders_sold"
            /\ exitOut.exit <=> (cfg.maxHoldEnabled
                                  /\ exitIn.heldMs >= cfg.maxHoldSeconds * 1000)
            /\ exitOut.exit => exitOut.reason = "max_hold_time"

C37_Witness ==
    /\ exitIn.kind = "position"
    /\ exitIn.sellers < 0
    /\ exitOut.exit
    /\ exitOut.reason = "max_hold_time"

\* C38: a bonding-curve account whose first 8 bytes are not the expected
\* account-type signature never yields a native price: the native read is a
\* miss and the resolution goes on to the next source.
C38_WrongSignatureIsAMiss ==
    (curveOut.kind = "read" /\ curveIn.kind = "account" /\ ~curveIn.discriminatorOk) =>
        /\ ~curveOut.raw.hasPrice
        /\ ~curveOut.pump.hasPrice
        /\ curveOut.quote.source # "pump.fun"

\* the monitoring loop never stops: once started it comes to the head of a
\* pass again and again
MonitorLoopLives == (gpc # "start") ~> (gpc = "smembers")

\* C39: in a graduation monitoring pass an error raised while one open
\* position is processed (store read, graduation check, marking) leaves the
\* remaining positions of the pass to be checked: a step takes at most the
\* position at hand off the list.  And the loop never stops: after any
\* error a new pass is eventually started.
C39_ErrorSkipsOnlyItsPosition ==
    /\ [][todo # <<>> => todo' \in {todo, Tail(todo)}]_vars
    /\ MonitorLoopLives
====
